---- MODULE Spec2Model ----
(***************************************************************************)
(* Pieskieo: a multi-model store (documents, rows, vectors, graph edges)   *)
(* over one write-ahead log per engine, hash-sharded by a pool of engines. *)
(*                                                                         *)
(* An engine is a record `e`; every engine operation of the source is an   *)
(* operator from (engine, arguments) to [e |-> engine', res |-> result]    *)
(* (plus d |-> directory' when the operation touches the data directory).  *)
(* The pool is a sequence of engines, the disk a function from directory   *)
(* names to the files the engine keeps there.                              *)
(***************************************************************************)
EXTENDS Integers, Sequences, FiniteSets, TLC

VARIABLES pool, disk, last, nops, hist, calls

vars == <<pool, disk, last, nops, hist, calls>>

(***************************************************************************)
(* Bounds of the model.                                                    *)
(***************************************************************************)
\* operations (API calls, close, open) in one behaviour
MaxOps == 4

\* largest shard count a pool is built with
MaxShards == 2

\* calls in one behaviour of the pool
MaxPoolOps == 3

\* the limit neighbors() is called with
NeighborLimit == 4

\* tombstones an index holds before a delete rebuilds its graph: the source's
\* max(max_elements / 10, 1000), scaled to the size of the model
RebuildThreshold == 1

(***************************************************************************)
(* Generic helpers on partial maps (HashMap / BTreeMap).                   *)
(***************************************************************************)
None == "None"

EmptyMap == <<>>

MapPut(m, k, v) == [x \in (DOMAIN m) \cup {k} |-> IF x = k THEN v ELSE m[x]]

MapDel(m, k) == [x \in (DOMAIN m) \ {k} |-> m[x]]

Has(m, k) == k \in DOMAIN m

\* Option<T> as a sequence of length 0 or 1
Some(x) == <<x>>

NoneOpt == <<>>

\* Vec::retain(|x| x != id)
RECURSIVE Retain(_, _)
Retain(s, id) ==
  IF s = <<>> THEN <<>>
  ELSE IF Head(s) = id THEN Retain(Tail(s), id)
       ELSE <<Head(s)>> \o Retain(Tail(s), id)

Contains(s, x) == \E i \in 1..Len(s) : s[i] = x

\* the elements of a finite set as a sequence, in an order fixed by CHOOSE
RECURSIVE SetToSeq(_)
SetToSeq(S) ==
  IF S = {} THEN <<>>
  ELSE LET x == CHOOSE y \in S : TRUE IN <<x>> \o SetToSeq(S \ {x})

(***************************************************************************)
(* UUIDs: 16 bytes.  shard_hash reads the first eight, little-endian.      *)
(***************************************************************************)
Uuid(b1, b2, b9) == <<b1, b2, 0, 0, 0, 0, 0, 0, b9, 0, 0, 0, 0, 0, 0, 0>>

U0 == Uuid(0, 0, 0)

U1 == Uuid(1, 0, 0)

U2 == Uuid(2, 0, 0)

\* hash 256 + 1: the second byte counts
U257 == Uuid(1, 1, 0)

\* same first eight bytes as U1, differs in byte 9 only
U1b == Uuid(1, 0, 7)

NoUuid == <<>>

UuidText(u) ==
  CASE u = U0 -> "uuid-0"
    [] u = U1 -> "uuid-1"
    [] u = U2 -> "uuid-2"
    [] u = U257 -> "uuid-257"
    [] u = U1b -> "uuid-1b"
    [] OTHER -> "uuid-?"

\* u64::from_le_bytes: eight bytes never exceed 2^64 - 1, so nothing wraps
RECURSIVE u64_from_le_bytes(_)
u64_from_le_bytes(arr) ==
  IF arr = <<>> THEN 0
  ELSE arr[1] + 256 * u64_from_le_bytes(Tail(arr))

shard_hash(id) == u64_from_le_bytes(SubSeq(id, 1, 8))

(***************************************************************************)
(* JSON values.  A scalar is <<tag, text>>; a document is a map from field *)
(* names to scalars, and a top-level non-object value is the map with the  *)
(* single key "$value".                                                    *)
(***************************************************************************)
JInt1 == <<"int", "1">>

JFlt1 == <<"flt", "1.0">>

JStr1 == <<"str", "1">>

JNull == <<"null", "null">>

Obj(f, v) == [x \in {f} |-> v]

EmptyObj == EmptyMap

NonObject == [x \in {"$value"} |-> JStr1]

is_object(json) == ~ Has(json, "$value")

\* Value::String -> s, Value::Number -> n.to_string(), Value::Bool -> b.to_string()
index_key(v) ==
  IF v[1] \in {"str", "int", "flt", "bool"} THEN Some(v[2]) ELSE NoneOpt

\* serde_json::to_vec / from_slice of a Value
to_vec(json) == <<"json", json>>

is_json(payload) == payload[1] = "json"

from_slice(payload) == payload[2]

(***************************************************************************)
(* WAL records and framing: a 4-byte length, then the serialized record.   *)
(* The file is a sequence of cells; a header cell is one byte of the       *)
(* length word, a payload cell one slice of the record's serialization.    *)
(***************************************************************************)
HdrLen == 4

PutRec(family, key, payload, ns, collection, table) ==
  [k |-> "Put", family |-> family, key |-> key, payload |-> payload,
   namespace |-> ns, collection |-> collection, table |-> table]

DeleteRec(family, key, ns, collection, table) ==
  [k |-> "Delete", family |-> family, key |-> key, payload |-> <<"none">>,
   namespace |-> ns, collection |-> collection, table |-> table]

SchemaRec(family, ns, collection, table, schema) ==
  [k |-> "Schema", family |-> family, key |-> NoUuid, payload |-> <<"schema", schema>>,
   namespace |-> ns, collection |-> collection, table |-> table]

\* serialized size of a record, in cells: a Delete carries no payload bytes
PayloadLen(rec) == IF rec.k = "Delete" THEN 2 ELSE 3

Frame(rec) ==
  [i \in 1..HdrLen |-> <<"H", PayloadLen(rec), i>>]
    \o [i \in 1..PayloadLen(rec) |-> <<"P", rec, i>>]

\* a hole left by a write past the end of the file reads as zero bytes
ZeroCell == <<"Z", 0, 0>>

\* u32::from_le_bytes of four cells: the length when they are the four bytes
\* of one header, 0 for four zero bytes, and otherwise bytes that are no length
\* this log ever wrote (-1)
HeaderValue(cells) ==
  IF \A i \in 1..HdrLen : cells[i][1] = "H" /\ cells[i][3] = i /\ cells[i][2] = cells[1][2]
  THEN cells[1][2]
  ELSE IF \A i \in 1..HdrLen : cells[i] = ZeroCell THEN 0 ELSE -1

\* bincode::deserialize of the payload cells
Deserializable(cells) ==
  /\ Len(cells) >= 1
  /\ cells[1][1] = "P"
  /\ Len(cells) = PayloadLen(cells[1][2])
  /\ \A i \in 1..Len(cells) : cells[i] = <<"P", cells[1][2], i>>

\* Wal::replay_since: records from `offset` on; end is the offset the reader
\* stopped at.  EOF inside the length word ends the loop; EOF inside the
\* payload, or bytes that do not deserialize, is an error.
RECURSIVE replay_since(_, _)
replay_since(file, offset) ==
  IF Len(file) - offset < HdrLen
  THEN [res |-> "Ok", records |-> <<>>, end |-> Len(file)]
  ELSE LET len == HeaderValue(SubSeq(file, offset + 1, offset + HdrLen))
           body == SubSeq(file, offset + HdrLen + 1, offset + HdrLen + len)
       IN IF len < 0 \/ Len(file) - offset - HdrLen < len
          THEN [res |-> "Io", records |-> <<>>, end |-> offset]
          ELSE IF ~ Deserializable(body)
          THEN [res |-> "Serde", records |-> <<>>, end |-> offset]
          ELSE LET rest == replay_since(file, offset + HdrLen + len)
               IN [res |-> rest.res,
                   records |-> <<body[1][2]>> \o rest.records,
                   end |-> rest.end]

replay(file) == replay_since(file, 0)

\* Wal::open: wal.log opened for append, nothing buffered
WalOpen == [buf |-> <<>>, app |-> TRUE, pos |-> 0]

\* Wal::append: the frame goes to the BufWriter
append(w, rec) == [w EXCEPT !.buf = @ \o Frame(rec)]

\* write(2) of `bytes` through a handle: at the end of the file for an
\* O_APPEND handle, at the handle's own offset otherwise
FileWrite(file, w, bytes) ==
  IF bytes = <<>> THEN file
  ELSE IF w.app THEN file \o bytes
  ELSE LET n == IF Len(file) > w.pos + Len(bytes) THEN Len(file) ELSE w.pos + Len(bytes)
       IN [i \in 1..n |->
             IF i > w.pos /\ i <= w.pos + Len(bytes) THEN bytes[i - w.pos]
             ELSE IF i <= Len(file) THEN file[i] ELSE ZeroCell]

\* BufWriter::flush (also run when a BufWriter is dropped)
FlushBuf(file, w) ==
  [file |-> FileWrite(file, w, w.buf),
   w |-> [w EXCEPT !.buf = <<>>, !.pos = IF w.app THEN 0 ELSE @ + Len(w.buf)]]

\* Wal::flush_sync
flush_sync(file, w) == FlushBuf(file, w)

\* Wal::truncate: a second handle (write, no append) sets the length to 0;
\* assigning the new BufWriter drops the old one, which flushes its buffer
truncate(file, w) ==
  [file |-> FlushBuf(<<>>, w).file,
   w |-> [buf |-> <<>>, app |-> FALSE, pos |-> 0]]

(***************************************************************************)
(* Results: <<kind, detail>>.                                              *)
(***************************************************************************)
Ok == <<"Ok", "">>

Err(kind) == <<kind, "">>

UniqueViolation(field) == <<"UniqueViolation", field>>

IsOk(res) == res[1] = "Ok"

\* a call that never returns
Blocked == <<"Blocked", "">>

(***************************************************************************)
(* Collections: documents and rows, their equality index and schemas.      *)
(* The nested HashMaps ns -> collection -> ... are flattened: docs and     *)
(* rows are keyed by <<ns, collection, id>>, an index by                   *)
(* <<ns, collection, field, value key>>, a schema by <<ns, collection>>.   *)
(***************************************************************************)
default_ns == "default"

ns(opt) == IF opt = None THEN default_ns ELSE opt

col(opt) == IF opt = None THEN default_ns ELSE opt

DocsField(fam) == IF fam = "Doc" THEN "docs" ELSE "rows"

IndexField(fam) == IF fam = "Doc" THEN "doc_index" ELSE "row_index"

SchemaField(fam) == IF fam = "Doc" THEN "doc_schema" ELSE "row_schema"

\* the collections <<n, c>> whose map exists (a put creates it, nothing
\* removes it)
ColsField(fam) == IF fam = "Doc" THEN "doc_cols" ELSE "row_cols"

\* the index keys <<n, c, field, key>> of the scalar top-level fields of json
IndexKeys(n, c, json) ==
  IF is_object(json)
  THEN {<<n, c, k, index_key(json[k])[1]>> : k \in {f \in DOMAIN json : index_key(json[f]) # NoneOpt}}
  ELSE {}

\* index_upsert that leaves the list of a value already indexed as it is
index_upsert_new_values_only(index, n, c, id, json) ==
  LET keys == IndexKeys(n, c, json)
  IN [x \in (DOMAIN index) \cup keys |-> IF x \in DOMAIN index THEN index[x] ELSE <<id>>]

index_upsert(index, n, c, id, json) ==
  LET keys == IndexKeys(n, c, json)
  IN [x \in (DOMAIN index) \cup keys |->
        IF x \in keys
        THEN IF x \in DOMAIN index
             THEN IF Contains(index[x], id) THEN index[x] ELSE Append(index[x], id)
             ELSE <<id>>
        ELSE index[x]]

index_remove(index, n, c, id, json) ==
  LET keys == IndexKeys(n, c, json)
  IN [x \in DOMAIN index |-> IF x \in keys THEN Retain(index[x], id) ELSE index[x]]

\* apply_record's Delete: the id leaves every list of the collection's index
index_scrub(index, n, c, id) ==
  [x \in DOMAIN index |->
     IF x[1] = n /\ x[2] = c THEN Retain(index[x], id) ELSE index[x]]

validate_object(json) == IF is_object(json) THEN Ok ELSE Err("Validation")

\* check_field without the uniqueness test
check_field_required_only(id, json, field, spec, index, n, c) ==
  IF spec.required /\ ~ Has(json, field) THEN Err("Validation") ELSE Ok

\* the verdict of check_schema's loop body for one schema field
check_field(id, json, field, spec, index, n, c) ==
  IF spec.required /\ ~ Has(json, field) THEN Err("Validation")
  ELSE IF /\ spec.unique
          /\ Has(json, field)
          /\ index_key(json[field]) # NoneOpt
          /\ Has(index, <<n, c, field, index_key(json[field])[1]>>)
          /\ \E i \in 1..Len(index[<<n, c, field, index_key(json[field])[1]>>]) :
               index[<<n, c, field, index_key(json[field])[1]>>][i] # id
       THEN UniqueViolation(field)
       ELSE Ok

\* the loop returns at the first field that fails; the schemas of this model
\* have one field, so the HashMap's iteration order does not matter
check_schema(id, json, schema, index, n, c) ==
  IF ~ is_object(json) THEN Err("Validation")
  ELSE LET bad == {f \in DOMAIN schema : ~ IsOk(check_field(id, json, f, schema[f], index, n, c))}
       IN IF bad = {} THEN Ok
          ELSE check_field(id, json, CHOOSE f \in bad : TRUE, schema[CHOOSE f \in bad : TRUE], index, n, c)

enforce_schema(e, fam, nsopt, colopt, id, json) ==
  IF Has(e[SchemaField(fam)], <<ns(nsopt), col(colopt)>>)
  THEN IF ~ IsOk(validate_object(json)) THEN validate_object(json)
       ELSE check_schema(id, json, e[SchemaField(fam)][<<ns(nsopt), col(colopt)>>],
                         e[IndexField(fam)], ns(nsopt), col(colopt))
  ELSE Ok

\* bump_doc_stats / bump_row_stats
bump_stats(stats, fam, n, c, delta) ==
  LET key == <<fam, n, c>>
      old == IF Has(stats, key) THEN stats[key] ELSE 0
  IN MapPut(stats, key, IF delta < 0 THEN (IF old + delta < 0 THEN 0 ELSE old + delta)
                        ELSE old + delta)

(***************************************************************************)
(* Sharding.                                                               *)
(***************************************************************************)
owns(e, id) ==
  IF e.shard_total <= 1 THEN TRUE
  ELSE (shard_hash(id) % e.shard_total) = e.shard_id

\* append_record, when the write to the log succeeds
append_record(e, rec) == [e EXCEPT !.wal = append(@, rec)]

(***************************************************************************)
(* Documents and rows.  `io` tells whether the WAL append succeeds.        *)
(***************************************************************************)
\* put_ns with the memory written before the log
put_ns_memory_first(e, fam, nsopt, colopt, id, json, io) ==
  IF ~ owns(e, id) THEN [e |-> e, res |-> Err("WrongShard")]
  ELSE LET e1 == [e EXCEPT
                    ![DocsField(fam)] = MapPut(@, <<ns(nsopt), col(colopt), id>>, json),
                    ![ColsField(fam)] = @ \cup {<<ns(nsopt), col(colopt)>>},
                    ![IndexField(fam)] = index_upsert(@, ns(nsopt), col(colopt), id, json)]
       IN IF ~ io THEN [e |-> e1, res |-> Err("Io")] ELSE [e |-> e1, res |-> Ok]

put_ns(e, fam, nsopt, colopt, id, json, io) ==
  IF ~ owns(e, id) THEN [e |-> e, res |-> Err("WrongShard")]
  ELSE IF ~ IsOk(enforce_schema(e, fam, nsopt, colopt, id, json))
  THEN [e |-> e, res |-> enforce_schema(e, fam, nsopt, colopt, id, json)]
  ELSE IF ~ io THEN [e |-> e, res |-> Err("Io")]
  ELSE LET rec == PutRec(fam, id, to_vec(json), ns(nsopt),
                         IF fam = "Doc" THEN col(colopt) ELSE None,
                         IF fam = "Row" THEN col(colopt) ELSE None)
           e1 == append_record(e, rec)
       IN [e |-> [e1 EXCEPT
                    ![DocsField(fam)] = MapPut(@, <<ns(nsopt), col(colopt), id>>, json),
                    ![ColsField(fam)] = @ \cup {<<ns(nsopt), col(colopt)>>},
                    ![IndexField(fam)] = index_upsert(@, ns(nsopt), col(colopt), id, json),
                    !.stats = bump_stats(@, fam, ns(nsopt), col(colopt), 1)],
           res |-> Ok]

put_doc_ns(e, nsopt, colopt, id, json, io) == put_ns(e, "Doc", nsopt, colopt, id, json, io)

put_row_ns(e, nsopt, table, id, row, io) == put_ns(e, "Row", nsopt, table, id, row, io)

delete_ns(e, fam, nsopt, colopt, id, io) ==
  IF ~ owns(e, id) THEN [e |-> e, res |-> Err("WrongShard")]
  ELSE IF ~ io THEN [e |-> e, res |-> Err("Io")]
  ELSE LET rec == DeleteRec(fam, id, ns(nsopt),
                            IF fam = "Doc" THEN col(colopt) ELSE None,
                            IF fam = "Row" THEN col(colopt) ELSE None)
           e1 == append_record(e, rec)
           key == <<ns(nsopt), col(colopt), id>>
       IN IF Has(e[DocsField(fam)], key)
          THEN [e |-> [e1 EXCEPT
                         ![DocsField(fam)] = MapDel(@, key),
                         ![IndexField(fam)] =
                            index_remove(@, ns(nsopt), col(colopt), id, e[DocsField(fam)][key]),
                         !.stats = bump_stats(@, fam, ns(nsopt), col(colopt), -1)],
                res |-> Ok]
          ELSE [e |-> e1, res |-> Ok]

delete_doc_ns(e, nsopt, colopt, id, io) == delete_ns(e, "Doc", nsopt, colopt, id, io)

delete_row_ns(e, nsopt, table, id, io) == delete_ns(e, "Row", nsopt, table, id, io)

set_schema(e, fam, nsopt, colopt, schema, io) ==
  IF ~ io THEN [e |-> e, res |-> Err("Io")]
  ELSE LET rec == SchemaRec(fam, ns(nsopt),
                            IF fam = "Doc" THEN col(colopt) ELSE None,
                            IF fam = "Row" THEN col(colopt) ELSE None, schema)
       IN [e |-> [append_record(e, rec) EXCEPT
                    ![SchemaField(fam)] = MapPut(@, <<ns(nsopt), col(colopt)>>, schema)],
           res |-> Ok]

set_doc_schema(e, nsopt, colopt, schema, io) == set_schema(e, "Doc", nsopt, colopt, schema, io)

set_row_schema(e, nsopt, table, schema, io) == set_schema(e, "Row", nsopt, table, schema, io)

get_ns(e, fam, nsopt, colopt, id) ==
  IF ~ owns(e, id) THEN NoneOpt
  ELSE IF Has(e[DocsField(fam)], <<ns(nsopt), col(colopt), id>>)
       THEN Some(e[DocsField(fam)][<<ns(nsopt), col(colopt), id>>])
       ELSE NoneOpt

get_doc_ns(e, nsopt, colopt, id) == get_ns(e, "Doc", nsopt, colopt, id)

get_row_ns(e, nsopt, table, id) == get_ns(e, "Row", nsopt, table, id)

(***************************************************************************)
(* Vector index (one per namespace): the primary store, the dimension      *)
(* fixed by the first insert, metadata, tombstones, the internal ids       *)
(* (rev_map[i + 1] is the id with internal id i; id_map is its inverse and *)
(* next_id its length) and the points of the HNSW graph in the order they  *)
(* were inserted, each a pair <<internal id, vector>>.                     *)
(***************************************************************************)
NewIndex ==
  [inner |-> EmptyMap, dim |-> NoneOpt, meta |-> EmptyMap, tombstones |-> {},
   rev_map |-> <<>>, hnsw |-> NoneOpt]

\* the internal id of an id that has one
internal(idx, id) == (CHOOSE i \in 1..Len(idx.rev_map) : idx.rev_map[i] = id) - 1

\* the id keeps its internal id or takes the next one
assign_id(idx, id) ==
  IF \E i \in 1..Len(idx.rev_map) : idx.rev_map[i] = id THEN idx
  ELSE [idx EXCEPT !.rev_map = Append(@, id)]

\* the tail of insert: the internal id, then the point added to the graph,
\* which is created on the first insert
hnsw_insert(idx, id, vector) ==
  LET i1 == assign_id(idx, id)
  IN [i1 EXCEPT !.hnsw = Some(Append(IF @ = NoneOpt THEN <<>> ELSE @[1],
                                      <<internal(i1, id), vector>>))]

\* VectorIndex::insert (metric L2: no normalisation)
insert(idx, id, vector, meta) ==
  IF idx.dim # NoneOpt /\ Len(vector) # idx.dim[1]
  THEN [idx |-> idx, res |-> Err("NotFound")]
  ELSE [idx |-> hnsw_insert(
                  [idx EXCEPT
                     !.inner = MapPut(@, id, vector),
                     !.dim = Some(Len(vector)),
                     !.meta = IF meta # NoneOpt THEN MapPut(@, id, meta[1]) ELSE @,
                     !.tombstones = @ \ {id}],
                  id, vector),
        res |-> Ok]

\* VectorIndex::rebuild_hnsw: a new graph of the stored vectors that are not
\* tombstoned; nothing is done while no dimension is set
RECURSIVE assign_ids(_, _)
assign_ids(idx, ids) ==
  IF ids = <<>> THEN idx ELSE assign_ids(assign_id(idx, Head(ids)), Tail(ids))

rebuild_hnsw(idx) ==
  IF idx.dim = NoneOpt THEN idx
  ELSE LET live == (DOMAIN idx.inner) \ idx.tombstones
           i1 == assign_ids(idx, SetToSeq(live))
           ids == SetToSeq(live)
       IN [i1 EXCEPT !.hnsw = Some([i \in 1..Len(ids) |->
                                     <<internal(i1, ids[i]), idx.inner[ids[i]]>>])]

\* VectorIndex::maybe_rebuild
maybe_rebuild(idx) ==
  IF Cardinality(idx.tombstones) > RebuildThreshold
  THEN [rebuild_hnsw(idx) EXCEPT !.tombstones = {}]
  ELSE idx

\* VectorIndex::delete
delete(idx, id) ==
  maybe_rebuild([idx EXCEPT !.inner = MapDel(@, id), !.tombstones = @ \cup {id}])

\* VectorIndex::save_snapshot: (id, vector, meta) of every stored vector
save_snapshot(idx) ==
  [id \in DOMAIN idx.inner |->
     <<idx.inner[id], IF Has(idx.meta, id) THEN Some(idx.meta[id]) ELSE NoneOpt>>]

\* VectorIndex::load_snapshot: the primary store, the internal ids, the
\* tombstones and the graph are cleared (dim and meta are not), then every
\* entry is inserted and the first failing insert ends the load.  `order` is the order of the entries.
RECURSIVE load_entries(_, _, _)
load_entries(idx, snap, order) ==
  IF order = <<>> THEN idx
  ELSE LET r == insert(idx, Head(order), snap[Head(order)][1], snap[Head(order)][2])
       IN IF IsOk(r.res) THEN load_entries(r.idx, snap, Tail(order)) ELSE idx

load_snapshot(idx, snap) ==
  load_entries([idx EXCEPT !.inner = EmptyMap, !.rev_map = <<>>, !.tombstones = {},
                           !.hnsw = NoneOpt],
               snap, SetToSeq(DOMAIN snap))

\* PieskieoDb::vector_index: the namespace's index, created when absent
vector_index(vectors, n) == IF Has(vectors, n) THEN vectors ELSE MapPut(vectors, n, NewIndex)

VecPayload(n, vector, meta) == <<"vecrec", [namespace |-> n, vector |-> vector, meta |-> meta]>>

EdgePayload(src, dst, weight) == <<"edge", [src |-> src, dst |-> dst, weight |-> weight]>>

(***************************************************************************)
(* Graph store: src -> edges in insertion order.                           *)
(***************************************************************************)
Edge(src, dst, weight) == [src |-> src, dst |-> dst, weight |-> weight]

graph_add_edge_always_push(adj, src, dst, weight) ==
  MapPut(adj, src, Append(IF Has(adj, src) THEN adj[src] ELSE <<>>, Edge(src, dst, weight)))

graph_add_edge(adj, src, dst, weight) ==
  LET entry == IF Has(adj, src) THEN adj[src] ELSE <<>>
  IN IF \E i \in 1..Len(entry) : entry[i].dst = dst
     THEN MapPut(adj, src, [i \in 1..Len(entry) |->
                              IF entry[i].dst = dst THEN Edge(src, dst, weight) ELSE entry[i]])
     ELSE MapPut(adj, src, Append(entry, Edge(src, dst, weight)))

add_edge(e, src, dst, weight, io) ==
  IF ~ owns(e, src) THEN [e |-> e, res |-> Err("WrongShard")]
  ELSE IF ~ io THEN [e |-> e, res |-> Err("Io")]
  ELSE [e |-> [append_record(e, PutRec("Graph", src, EdgePayload(src, dst, weight),
                                       None, None, None))
                 EXCEPT !.graph = graph_add_edge(@, src, dst, weight)],
        res |-> Ok]

neighbors(e, id, limit) ==
  IF Has(e.graph, id)
  THEN SubSeq(e.graph[id], 1, IF Len(e.graph[id]) < limit THEN Len(e.graph[id]) ELSE limit)
  ELSE <<>>

(***************************************************************************)
(* Vector search.  A hit is [id, score]; the metric is L2, so the score is *)
(* the negated squared distance.                                           *)
(***************************************************************************)
RECURSIVE l2(_, _)
l2(a, b) ==
  IF a = <<>> \/ b = <<>> THEN 0
  ELSE (a[1] - b[1]) * (a[1] - b[1]) + l2(Tail(a), Tail(b))

Hit(id, score) == [id |-> id, score |-> score]

\* sort_by descending score: a stable sort
RECURSIVE sort_by_score(_)
sort_by_score(hits) ==
  IF hits = <<>> THEN <<>>
  ELSE LET rest == sort_by_score(Tail(hits))
           n == Cardinality({i \in 1..Len(rest) : rest[i].score > Head(hits).score})
       IN SubSeq(rest, 1, n) \o <<Head(hits)>> \o SubSeq(rest, n + 1, Len(rest))

\* Vec::truncate
Truncate(seq, k) == SubSeq(seq, 1, IF Len(seq) < k THEN Len(seq) ELSE k)

\* the metadata post-filter of both searches
meta_matches(idx, id, filters) ==
  /\ Has(idx.meta, id)
  /\ \A key \in DOMAIN filters : Has(idx.meta[id], key) /\ idx.meta[id][key] = filters[key]

\* VectorIndex::search_filtered: the exact search over the primary store
search_filtered(idx, query, k, filter_meta) ==
  IF query = <<>> THEN [res |-> Err("NotFound"), hits |-> <<>>]
  ELSE IF idx.dim # NoneOpt /\ Len(query) # idx.dim[1]
  THEN [res |-> Err("NotFound"), hits |-> <<>>]
  ELSE LET ids == SetToSeq(DOMAIN idx.inner)
           scores == sort_by_score([i \in 1..Len(ids) |->
                                      Hit(ids[i], 0 - l2(query, idx.inner[ids[i]]))])
           kept == IF filter_meta = NoneOpt THEN scores
                   ELSE SelectSeq(scores, LAMBDA h : meta_matches(idx, h.id, filter_meta[1]))
       IN [res |-> Ok, hits |-> Truncate(kept, k)]

\* Hnsw::search: the k nearest points of the graph (at this size the graph
\* search visits every point)
hnsw_search(points, query, k) ==
  Truncate(sort_by_score([i \in 1..Len(points) |->
                            Hit(points[i][1], 0 - l2(query, points[i][2]))]), k)

\* VectorIndex::search_ann_filtered
search_ann_filtered(idx, query, k, filter_meta) ==
  IF idx.hnsw = NoneOpt THEN search_filtered(idx, query, k, filter_meta)
  ELSE LET results == hnsw_search(idx.hnsw[1], query, k)
           mapped == SelectSeq(results, LAMBDA r : r.id < Len(idx.rev_map))
           hits == SelectSeq([i \in 1..Len(mapped) |->
                                Hit(idx.rev_map[mapped[i].id + 1], mapped[i].score)],
                             LAMBDA h : h.id \notin idx.tombstones)
           filtered == IF filter_meta = NoneOpt THEN hits
                       ELSE SelectSeq(hits, LAMBDA h : meta_matches(idx, h.id, filter_meta[1]))
       IN [res |-> Ok, hits |-> Truncate(filtered, k)]

\* search_vector_metric: every namespace is searched, in the order `order`
\* the map yields them, and the hits are merged
RECURSIVE search_each(_, _, _, _, _)
search_each(e, order, query, k, filter_meta) ==
  IF order = <<>> THEN [res |-> Ok, hits |-> <<>>]
  ELSE LET r == search_ann_filtered(e.vectors[Head(order)], query, k, filter_meta)
           rest == search_each(e, Tail(order), query, k, filter_meta)
       IN IF ~ IsOk(r.res) THEN r
          ELSE IF ~ IsOk(rest.res) THEN rest
          ELSE [res |-> Ok, hits |-> r.hits \o rest.hits]

search_vector_metric(e, order, query, k, filter_meta) ==
  LET r == search_each(e, order, query, k, filter_meta)
  IN [e |-> e, res |-> r.res,
      hits |-> IF IsOk(r.res) THEN Truncate(sort_by_score(r.hits), k) ELSE <<>>]

search_vector(e, order, query, k) == search_vector_metric(e, order, query, k, NoneOpt)

\* search_vector_metric_ns: one namespace, whose index is created when absent
search_vector_metric_ns(e, nsopt, query, k, filter_meta) ==
  LET vs == vector_index(e.vectors, ns(nsopt))
      r == search_ann_filtered(vs[ns(nsopt)], query, k, filter_meta)
  IN [e |-> [e EXCEPT !.vectors = vs], res |-> r.res, hits |-> r.hits]

\* the weight 1.0 / (1.0 + |score|) of a link, kept as the |score| it is
\* computed from
LinkWeight(score) == <<"1/(1+x)", IF score < 0 THEN 0 - score ELSE score>>

\* the loop of auto_link_neighbors: both directions per hit, the result of
\* either add_edge ignored
RECURSIVE link_each(_, _, _)
link_each(e, id, hits) ==
  IF hits = <<>> THEN e
  ELSE LET weight == LinkWeight(Head(hits).score)
           e1 == add_edge(e, id, Head(hits).id, weight, TRUE).e
           e2 == add_edge(e1, Head(hits).id, id, weight, TRUE).e
       IN link_each(e2, id, Tail(hits))

\* auto_link_neighbors: nothing when link_top_k is 0 or the vector is not
\* stored; else the link_top_k + 1 nearest hits of the namespace without
\* those of the id itself, of which the first link_top_k are linked
auto_link_neighbors(e, id, n) ==
  IF e.link_top_k = 0 THEN e
  ELSE IF ~ (Has(e.vectors, n) /\ Has(e.vectors[n].inner, id)) THEN e
  ELSE LET r == search_vector_metric_ns(e, n, e.vectors[n].inner[id],
                                        e.link_top_k + 1, NoneOpt)
       IN IF ~ IsOk(r.res) THEN e
          ELSE link_each(e, id, Truncate(SelectSeq(r.hits, LAMBDA h : h.id # id),
                                         e.link_top_k))

put_vector_with_meta_ns(e, nsopt, id, vector, meta, io) ==
  IF ~ owns(e, id) THEN [e |-> e, res |-> Err("WrongShard")]
  ELSE IF ~ io THEN [e |-> e, res |-> Err("Io")]
  ELSE LET n == ns(nsopt)
           e1 == append_record(e, PutRec("Vec", id, VecPayload(n, vector, meta), n, None, None))
           vs == vector_index(e1.vectors, n)
           r == insert(vs[n], id, vector, meta)
       IN IF ~ IsOk(r.res) THEN [e |-> [e1 EXCEPT !.vectors = vs], res |-> r.res]
          ELSE [e |-> auto_link_neighbors(
                        [e1 EXCEPT !.vectors = MapPut(vs, n, r.idx),
                                   !.vector_ns = MapPut(@, id, n)], id, n),
                res |-> Ok]

\* the namespace update_vector_meta, remove_vector_meta_keys, delete_vector
\* and get_vector look the id up in
NsOf(e, id) == IF Has(e.vector_ns, id) THEN e.vector_ns[id] ELSE default_ns

\* merge of a metadata patch into the existing metadata
MergeMeta(existing, patch) ==
  [k \in (DOMAIN existing) \cup (DOMAIN patch) |->
     IF k \in DOMAIN patch THEN patch[k] ELSE existing[k]]

\* the common tail of update_vector_meta and remove_vector_meta_keys
rewrite_meta(e, id, new_meta, io) ==
  LET n == NsOf(e, id)
      vs == vector_index(e.vectors, n)
      e0 == [e EXCEPT !.vectors = vs]
  IN IF ~ Has(vs[n].inner, id) THEN [e |-> e0, res |-> Err("NotFound")]
     ELSE IF ~ io THEN [e |-> e0, res |-> Err("Io")]
     ELSE LET vector == vs[n].inner[id]
              e1 == append_record(e0, PutRec("Vec", id, VecPayload(n, vector, Some(new_meta)),
                                             n, None, None))
              r == insert(vs[n], id, vector, Some(new_meta))
          IN [e |-> [e1 EXCEPT !.vectors = MapPut(vs, n, r.idx)], res |-> r.res]

update_vector_meta(e, id, meta_patch, io) ==
  LET idx == vector_index(e.vectors, NsOf(e, id))[NsOf(e, id)]
  IN rewrite_meta(e, id,
       IF Has(idx.meta, id) THEN MergeMeta(idx.meta[id], meta_patch) ELSE meta_patch, io)

remove_vector_meta_keys(e, id, keys, io) ==
  LET idx == vector_index(e.vectors, NsOf(e, id))[NsOf(e, id)]
      m == IF Has(idx.meta, id) THEN idx.meta[id] ELSE EmptyMap
  IN rewrite_meta(e, id, [k \in (DOMAIN m) \ keys |-> m[k]], io)

delete_vector(e, id, io) ==
  IF ~ owns(e, id) THEN [e |-> e, res |-> Err("WrongShard")]
  ELSE IF ~ io THEN [e |-> e, res |-> Err("Io")]
  ELSE LET n == NsOf(e, id)
           e1 == append_record(e, DeleteRec("Vec", id, n, None, None))
       IN [e |-> [e1 EXCEPT
                    !.vectors = IF Has(@, n) THEN MapPut(@, n, delete(@[n], id)) ELSE @,
                    !.vector_ns = MapDel(@, id)],
           res |-> Ok]

get_vector(e, id) ==
  LET n == NsOf(e, id)
  IN IF Has(e.vectors, n) /\ Has(e.vectors[n].inner, id)
     THEN Some(<<e.vectors[n].inner[id],
                 IF Has(e.vectors[n].meta, id) THEN Some(e.vectors[n].meta[id]) ELSE NoneOpt>>)
     ELSE NoneOpt

(***************************************************************************)
(* Opening, closing and maintenance.  A data directory holds wal.log and   *)
(* vectors/<ns>.snapshot: d = [wal |-> cells, snaps |-> ns -> snapshot].   *)
(***************************************************************************)
EmptyDir == [wal |-> <<>>, snaps |-> EmptyMap]

\* VectorParams::default() with the shard position of the engine
VectorParams(shard_id, shard_total) ==
  [link_top_k |-> 0, shard_id |-> shard_id, shard_total |-> shard_total]

NewEngine(path, params) ==
  [path |-> path, wal |-> WalOpen,
   docs |-> EmptyMap, rows |-> EmptyMap,
   doc_cols |-> {}, row_cols |-> {},
   doc_index |-> EmptyMap, row_index |-> EmptyMap,
   doc_schema |-> EmptyMap, row_schema |-> EmptyMap,
   stats |-> EmptyMap,
   vectors |-> MapPut(EmptyMap, default_ns, NewIndex),
   vector_ns |-> EmptyMap,
   graph |-> EmptyMap,
   link_top_k |-> params.link_top_k,
   shard_id |-> params.shard_id,
   shard_total |-> IF params.shard_total < 1 THEN 1 ELSE params.shard_total]

\* the collection a Put/Delete/Schema record addresses
RecCol(rec) ==
  IF rec.family = "Doc" THEN col(rec.collection) ELSE col(rec.table)

\* one iteration of the replay loop of open_with_params
replay_record(e, rec) ==
  LET n == ns(rec.namespace)
      c == RecCol(rec)
      fam == rec.family
  IN CASE rec.k = "Put" /\ fam \in {"Doc", "Row"} ->
            IF ~ is_json(rec.payload) THEN [e |-> e, res |-> Err("Serde")]
            ELSE [e |-> [e EXCEPT
                           ![DocsField(fam)] = MapPut(@, <<n, c, rec.key>>, from_slice(rec.payload)),
                           ![ColsField(fam)] = @ \cup {<<n, c>>},
                           ![IndexField(fam)] = index_upsert(@, n, c, rec.key, from_slice(rec.payload))],
                  res |-> Ok]
       [] rec.k = "Put" /\ fam = "Vec" ->
            IF rec.payload[1] # "vecrec" THEN [e |-> e, res |-> Err("Serde")]
            ELSE LET vn == ns(rec.payload[2].namespace)
                     vs == vector_index(e.vectors, vn)
                     r == insert(vs[vn], rec.key, rec.payload[2].vector, rec.payload[2].meta)
                 IN [e |-> [e EXCEPT !.vectors = MapPut(vs, vn, r.idx),
                                     !.vector_ns = MapPut(@, rec.key, vn)],
                     res |-> Ok]
       [] rec.k = "Put" /\ fam = "Graph" ->
            IF rec.payload[1] # "edge" THEN [e |-> e, res |-> Err("Serde")]
            ELSE [e |-> [e EXCEPT !.graph = graph_add_edge(@, rec.payload[2].src,
                                              rec.payload[2].dst, rec.payload[2].weight)],
                  res |-> Ok]
       [] rec.k = "Delete" /\ fam \in {"Doc", "Row"} ->
            IF Has(e[DocsField(fam)], <<n, c, rec.key>>)
            THEN [e |-> [e EXCEPT
                           ![DocsField(fam)] = MapDel(@, <<n, c, rec.key>>),
                           ![IndexField(fam)] =
                              index_remove(@, n, c, rec.key, e[DocsField(fam)][<<n, c, rec.key>>])],
                  res |-> Ok]
            ELSE [e |-> e, res |-> Ok]
       [] rec.k = "Delete" /\ fam = "Vec" ->
            IF Has(e.vectors, n)
            THEN [e |-> [e EXCEPT !.vectors = MapPut(@, n, delete(@[n], rec.key)),
                                  !.vector_ns = MapDel(@, rec.key)],
                  res |-> Ok]
            ELSE [e |-> e, res |-> Ok]
       [] rec.k = "Schema" /\ fam \in {"Doc", "Row"} ->
            [e |-> [e EXCEPT ![SchemaField(fam)] = MapPut(@, <<n, c>>, rec.payload[2])],
             res |-> Ok]
       [] OTHER -> [e |-> e, res |-> Ok]

RECURSIVE replay_all(_, _)
replay_all(e, records) ==
  IF records = <<>> THEN [e |-> e, res |-> Ok]
  ELSE LET r == replay_record(e, Head(records))
       IN IF IsOk(r.res) THEN replay_all(r.e, Tail(records)) ELSE r

\* the snapshot loop of open_with_params; `order` is the order in which
\* read_dir yields the snapshot files.  The graph load_hnsw reads from the
\* .hnsw dump is replaced by the rebuild_hnsw that follows it.
RECURSIVE load_snapshots(_, _, _)
load_snapshots(e, snaps, order) ==
  IF order = <<>> THEN e
  ELSE LET n == Head(order)
           vs == vector_index(e.vectors, n)
           idx == rebuild_hnsw(load_snapshot(vs[n], snaps[n]))
           e1 == [e EXCEPT !.vectors = MapPut(vs, n, idx),
                           !.vector_ns = [id \in (DOMAIN @) \cup (DOMAIN idx.inner) |->
                                            IF id \in DOMAIN idx.inner THEN n ELSE @[id]]]
       IN load_snapshots(e1, snaps, Tail(order))

open_with_params(d, path, params, order) ==
  LET log == replay(d.wal)
      r == replay_all(NewEngine(path, params), log.records)
  IN IF log.res # "Ok" THEN [e |-> <<>>, res |-> Err(log.res)]
     ELSE IF ~ IsOk(r.res) THEN [e |-> <<>>, res |-> r.res]
     ELSE [e |-> load_snapshots(r.e, d.snaps, order), res |-> Ok]

\* save_vector_snapshot: one snapshot file per namespace index
save_vector_snapshot(e, d) ==
  [d EXCEPT !.snaps = [n \in (DOMAIN @) \cup (DOMAIN e.vectors) |->
                         IF n \in DOMAIN e.vectors THEN save_snapshot(e.vectors[n]) ELSE @[n]]]

\* impl Drop: the snapshots are saved, then the fields are dropped and the
\* BufWriter of the log flushes what it holds
Drop(e, d) ==
  LET d1 == save_vector_snapshot(e, d)
  IN [d1 EXCEPT !.wal = FlushBuf(@, e.wal).file]

flush_wal(e, d) ==
  [e |-> [e EXCEPT !.wal = flush_sync(d.wal, e.wal).w],
   d |-> [d EXCEPT !.wal = flush_sync(d.wal, e.wal).file],
   res |-> Ok]

\* rebuild_vectors: rebuild_hnsw of every namespace
rebuild_vectors(e) ==
  [e EXCEPT !.vectors = [n \in DOMAIN @ |-> rebuild_hnsw(@[n])]]

vacuum(e, d) ==
  LET vs == [n \in DOMAIN e.vectors |->
               [e.vectors[n] EXCEPT
                  !.inner = [id \in (DOMAIN @) \ e.vectors[n].tombstones |-> @[id]],
                  !.tombstones = {}]]
      e1 == rebuild_vectors([e EXCEPT !.vectors = vs])
      d1 == save_vector_snapshot(e1, d)
      t == truncate(d1.wal, e1.wal)
  IN [e |-> [e1 EXCEPT !.wal = t.w], d |-> [d1 EXCEPT !.wal = t.file], res |-> Ok]

\* wal_dump: the records of the log file as replay reads them
wal_dump(d) == replay(d.wal)

\* apply_record: a replicated record applied to the live engine
apply_record(e, rec) ==
  LET n == ns(rec.namespace)
      c == RecCol(rec)
      fam == rec.family
  IN CASE rec.k = "Put" /\ fam = "Vec" /\ rec.payload[1] = "vecrec" ->
            LET vn == ns(rec.payload[2].namespace)
                vs == vector_index(e.vectors, vn)
                r == insert(vs[vn], rec.key, rec.payload[2].vector, rec.payload[2].meta)
            IN IF ~ IsOk(r.res) THEN [e |-> [e EXCEPT !.vectors = vs], res |-> r.res]
               ELSE [e |-> [e EXCEPT !.vectors = MapPut(vs, vn, r.idx),
                                     !.vector_ns = MapPut(@, rec.key, vn)],
                     res |-> Ok]
       [] rec.k = "Delete" /\ fam \in {"Doc", "Row"} ->
            [e |-> [e EXCEPT ![DocsField(fam)] = MapDel(@, <<n, c, rec.key>>),
                             ![IndexField(fam)] = index_scrub(@, n, c, rec.key)],
             res |-> Ok]
       [] rec.k = "Delete" /\ fam = "Vec" ->
            \* the read guard on vector_ns taken by the `if let` is still held
            \* when the arm asks for the write guard: the call does not return
            IF Has(e.vector_ns, rec.key)
            THEN LET vn == e.vector_ns[rec.key]
                     vs == vector_index(e.vectors, vn)
                 IN [e |-> [e EXCEPT !.vectors = MapPut(vs, vn, delete(vs[vn], rec.key))],
                     res |-> Blocked]
            ELSE [e |-> e, res |-> Ok]
       [] OTHER -> replay_record(e, rec)

RECURSIVE apply_records(_, _, _)
apply_records(e, records, io) ==
  IF records = <<>> THEN [e |-> e, res |-> Ok]
  ELSE IF ~ io THEN [e |-> e, res |-> Err("Io")]
  ELSE LET r == apply_record(append_record(e, Head(records)), Head(records))
       IN IF IsOk(r.res) THEN apply_records(r.e, Tail(records), io) ELSE r

(***************************************************************************)
(* The state machine.                                                      *)
(*   pool  the engines that are open (empty while the process is down)     *)
(*   disk  directory name -> files                                         *)
(*   last  the most recent call: its name, result and shard                *)
(*   nops  calls made so far                                               *)
(*   hist  history: what the behaviour has put, deleted, closed over, torn *)
(*   calls the calls in flight on other threads, each with its position    *)
(***************************************************************************)
Base == <<"base", 0>>

ShardDir(i) == <<"shard", i>>

Dirs == {Base} \cup {ShardDir(i) : i \in 0..(MaxShards - 1)}

\* all orderings of a finite set
RECURSIVE Perms(_)
Perms(S) ==
  IF S = {} THEN {<<>>}
  ELSE UNION {{<<x>> \o p : p \in Perms(S \ {x})} : x \in S}

\* io: whether the log accepted appends during the call
Call(op, res, shard, io) ==
  [op |-> op, res |-> res, shard |-> shard, io |-> io, order |-> <<>>, arg |-> <<>>]

\* what a stored item is addressed by
Item(fam, nsopt, colopt, id) == [fam |-> fam, nsopt |-> nsopt, colopt |-> colopt, id |-> id]

InitHist(w) ==
  [workload |-> w, put |-> <<>>, rt |-> <<>>, live |-> {}, gone |-> {}, torn |-> "no",
   uq |-> "fresh"]

\* history after a put of `item` with value `val`
HistPut(h, item, val, res) ==
  IF IsOk(res)
  THEN [h EXCEPT !.put = <<[item |-> item, val |-> val]>>,
                 !.live = {x \in @ : ~ (x.fam = item.fam /\ x.id = item.id)} \cup {item},
                 !.gone = {x \in @ : ~ (x.fam = item.fam /\ x.id = item.id)}]
  ELSE [h EXCEPT !.put = <<>>]

\* history after a delete addressed to `item`
HistDelete(h, item, res) ==
  IF IsOk(res) /\ item \in h.live
  THEN [h EXCEPT !.put = <<>>, !.live = @ \ {item}, !.gone = @ \cup {item}]
  ELSE [h EXCEPT !.put = <<>>]

\* history after any other call
HistOther(h) == [h EXCEPT !.put = <<>>]

Up == pool # <<>>

Commit(i, r, op, io, arg, h) ==
  /\ pool' = [pool EXCEPT ![i] = r.e]
  /\ last' = [Call(op, r.res, i, io) EXCEPT !.arg = arg]
  /\ nops' = nops + 1
  /\ UNCHANGED calls
  /\ hist' = h
  /\ UNCHANGED disk

\* the collection C8 watches, default/default of the family, holds data
Watched(e, fam) ==
  \E k \in DOMAIN e[DocsField(fam)] : k[1] = default_ns /\ k[2] = default_ns

\* uq after a put, update, delete or SQL write: data in a collection that has
\* no schema yet ends the premise of C8
UqData(h, e, fam) ==
  IF h.uq = "fresh" /\ Watched(e, fam) THEN [h EXCEPT !.uq = "void"] ELSE h

\* uq after set_schema: the premise of C8 starts with the schema set on the
\* empty collection and ends when the schema is set again
UqSchema(h, res) ==
  IF ~ IsOk(res) THEN h
  ELSE [h EXCEPT !.uq = IF @ = "fresh" THEN "unique" ELSE "void"]

(***************************************************************************)
(* Inputs of the single-engine specification.                              *)
(***************************************************************************)
Addrs == {<<None, None>>, <<"a", "c">>}

EngineIds == {U0}

Docs == {Obj("f", JInt1), Obj("f", JStr1)}

UniqueF == Obj("f", [required |-> FALSE, unique |-> TRUE])

V1 == <<1>>

V2 == <<2>>

M1 == Obj("tag", "x")

M2 == Obj("tag", "y")

VecInputs == {<<V1, Some(M1)>>, <<V2, Some(M2)>>}

Weights == {1, 2}

\* the argument of a keyed call as `last` keeps it
Arg(id, val) == <<[id |-> id, val |-> val]>>

PutDoc(i, fam, a, id, json, io) ==
  /\ Up /\ nops < MaxOps /\ hist.workload = fam
  /\ LET r == put_ns(pool[i], fam, a[1], a[2], id, json, io)
     IN Commit(i, r, "put", io, Arg(id, json),
               UqData(HistPut(hist, Item(fam, a[1], a[2], id), json, r.res), r.e, fam))

DeleteDoc(i, fam, a, id, io) ==
  /\ Up /\ nops < MaxOps /\ hist.workload = fam
  /\ LET r == delete_ns(pool[i], fam, a[1], a[2], id, io)
     IN Commit(i, r, "delete", io, Arg(id, <<>>),
               HistDelete(hist, Item(fam, a[1], a[2], id), r.res))

SetSchema(i, fam, a, schema, io) ==
  /\ Up /\ nops < MaxOps /\ hist.workload = fam
  /\ LET r == set_schema(pool[i], fam, a[1], a[2], schema, io)
     IN Commit(i, r, "set_schema", io, <<>>, UqSchema(HistOther(hist), r.res))

PutVector(i, nsopt, id, v, io) ==
  /\ Up /\ nops < MaxOps /\ hist.workload = "Vec"
  /\ LET r == put_vector_with_meta_ns(pool[i], nsopt, id, v[1], v[2], io)
     IN Commit(i, r, "put", io, Arg(id, v),
               HistPut(hist, Item("Vec", nsopt, None, id), v, r.res))

\* delete_vector takes no namespace: it is addressed to the one the id is
\* registered in
DeleteVector(i, id, io) ==
  /\ Up /\ nops < MaxOps /\ hist.workload = "Vec"
  /\ LET r == delete_vector(pool[i], id, io)
     IN Commit(i, r, "delete", io, Arg(id, <<>>),
               IF \E x \in hist.live : x.fam = "Vec" /\ x.id = id
               THEN HistDelete(hist, CHOOSE x \in hist.live : x.fam = "Vec" /\ x.id = id, r.res)
               ELSE HistOther(hist))

AddEdge(i, src, dst, w, io) ==
  /\ Up /\ nops < MaxOps /\ hist.workload = "Graph"
  /\ LET r == add_edge(pool[i], src, dst, w, io)
     IN Commit(i, r, "put", io, Arg(src, Edge(src, dst, w)),
               HistPut(hist, Item("Graph", None, None, src), Edge(src, dst, w), r.res))

FlushWal(i) ==
  /\ Up /\ nops < MaxOps
  /\ LET r == flush_wal(pool[i], disk[pool[i].path])
     IN /\ pool' = [pool EXCEPT ![i] = r.e]
        /\ disk' = [disk EXCEPT ![pool[i].path] = r.d]
        /\ last' = Call("flush_wal", r.res, i, TRUE)
  /\ nops' = nops + 1
  /\ UNCHANGED calls
  /\ hist' = HistOther(hist)

Vacuum(i) ==
  /\ Up /\ nops < MaxOps
  /\ LET r == vacuum(pool[i], disk[pool[i].path])
     IN /\ pool' = [pool EXCEPT ![i] = r.e]
        /\ disk' = [disk EXCEPT ![pool[i].path] = r.d]
        /\ last' = Call("vacuum", r.res, i, TRUE)
  /\ nops' = nops + 1
  /\ UNCHANGED calls
  /\ hist' = HistOther(hist)

\* the process ends: the engine is dropped
Close ==
  /\ Up /\ Len(pool) = 1 /\ nops < MaxOps
  /\ pool' = <<>>
  /\ disk' = [disk EXCEPT ![pool[1].path] = Drop(pool[1], @)]
  /\ last' = Call("close", Ok, 1, TRUE)
  /\ nops' = nops + 1
  /\ UNCHANGED calls
  /\ hist' = [hist EXCEPT !.rt = hist.put, !.put = <<>>, !.live = {}, !.gone = {}, !.torn = "no"]

\* PieskieoDb::open on the base directory
Open ==
  /\ ~ Up /\ nops < MaxOps
  /\ \E order \in Perms(DOMAIN disk[Base].snaps) :
       LET r == open_with_params(disk[Base], Base, VectorParams(0, 1), order)
       IN /\ pool' = IF IsOk(r.res) THEN <<r.e>> ELSE <<>>
          /\ last' = [Call("open", r.res, 1, TRUE) EXCEPT !.order = order]
  /\ nops' = nops + 1
  /\ UNCHANGED calls
  /\ hist' = hist
  /\ UNCHANGED disk

\* while the process is down, the log loses the last k cells of its last frame
Tear(k) ==
  /\ ~ Up /\ nops < MaxOps /\ hist.torn = "no"
  /\ LET file == disk[Base].wal
         log == replay(file)
     IN /\ log.res = "Ok" /\ log.end = Len(file) /\ log.records # <<>>
        /\ k < HdrLen + PayloadLen(log.records[Len(log.records)])
        /\ disk' = [disk EXCEPT ![Base].wal = SubSeq(file, 1, Len(file) - k)]
        /\ hist' = [hist EXCEPT !.rt = <<>>,
                      !.torn = IF k < PayloadLen(log.records[Len(log.records)]) THEN "payload"
                               ELSE IF k = PayloadLen(log.records[Len(log.records)]) THEN "boundary"
                               ELSE "header"]
  /\ last' = Call("tear", Ok, 1, TRUE)
  /\ nops' = nops + 1
  /\ UNCHANGED calls
  /\ UNCHANGED pool

InitEngine ==
  /\ pool = <<NewEngine(Base, VectorParams(0, 1))>>
  /\ disk = [d \in Dirs |-> EmptyDir]
  /\ last = Call("open", Ok, 1, TRUE)
  /\ nops = 0
  /\ calls = <<>>
  /\ hist \in {InitHist(w) : w \in {"Doc", "Row", "Vec", "Graph"}}

NextEngine ==
  \/ \E fam \in {"Doc", "Row"}, a \in Addrs, id \in EngineIds, json \in Docs, io \in BOOLEAN :
       PutDoc(1, fam, a, id, json, io)
  \/ \E fam \in {"Doc", "Row"}, a \in Addrs, id \in EngineIds, io \in BOOLEAN :
       DeleteDoc(1, fam, a, id, io)
  \/ \E fam \in {"Doc", "Row"}, io \in BOOLEAN : SetSchema(1, fam, <<None, None>>, UniqueF, io)
  \/ \E nsopt \in {None, "a"}, id \in EngineIds, v \in VecInputs, io \in BOOLEAN :
       PutVector(1, nsopt, id, v, io)
  \/ \E id \in EngineIds, io \in BOOLEAN : DeleteVector(1, id, io)
  \/ \E src \in EngineIds, dst \in {U0, U1}, w \in Weights, io \in BOOLEAN :
       AddEdge(1, src, dst, w, io)
  \/ FlushWal(1)
  \/ Vacuum(1)
  \/ Close
  \/ Open
  \/ \E k \in 1..(HdrLen + 2) : Tear(k)

SpecEngine == InitEngine /\ [][NextEngine]_vars

(***************************************************************************)
(* Claims about the single engine (SpecEngine).                            *)
(***************************************************************************)
\* the in-memory state C4 and C5 speak of: docs, rows, secondary indexes,
\* schemas, vectors with their metadata, and the graph
Mem(e) ==
  [docs |-> e.docs, rows |-> e.rows, doc_index |-> e.doc_index, row_index |-> e.row_index,
   doc_schema |-> e.doc_schema, row_schema |-> e.row_schema,
   vectors |-> [n \in DOMAIN e.vectors |->
                  [inner |-> e.vectors[n].inner, meta |-> e.vectors[n].meta]],
   graph |-> e.graph]

\* get_x(id) returns val (for an edge: neighbors(src) holds it)
Returns(e, item, val) ==
  CASE item.fam \in {"Doc", "Row"} ->
         get_ns(e, item.fam, item.nsopt, item.colopt, item.id) = Some(val)
    [] item.fam = "Vec" -> get_vector(e, item.id) = Some(val)
    [] item.fam = "Graph" -> Contains(neighbors(e, item.id, NeighborLimit), val)

\* get_x(id) returns None
ReturnsNone(e, item) ==
  CASE item.fam \in {"Doc", "Row"} ->
         get_ns(e, item.fam, item.nsopt, item.colopt, item.id) = NoneOpt
    [] item.fam = "Vec" -> get_vector(e, item.id) = NoneOpt
    [] OTHER -> TRUE

\* C1: after a successful put_x(id, v), closing the engine and opening a new
\* one on the same directory makes get_x(id) (neighbors(src) for an edge)
\* return v, for documents, rows, vectors with metadata and edges.
C1_PutCloseOpenGet ==
  (last.op = "open" /\ hist.rt # <<>>) =>
     /\ IsOk(last.res)
     /\ Returns(pool[1], hist.rt[1].item, hist.rt[1].val)

\* C2: after a successful put_x(id, v) and a successful delete_x(id) addressed
\* to the same namespace/collection, with no put of id in between or after,
\* get_x(id) returns None, for documents, rows and vectors.
C2_PutDeleteGetNone ==
  Up => \A item \in hist.gone : ReturnsNone(pool[1], item)

\* the bytes of the log up to the last frame whose header is complete
RECURSIVE FramedPrefix(_, _)
FramedPrefix(file, offset) ==
  IF Len(file) - offset < HdrLen THEN offset
  ELSE LET len == HeaderValue(SubSeq(file, offset + 1, offset + HdrLen))
       IN IF len < 0 \/ Len(file) - offset - HdrLen < len THEN offset
          ELSE FramedPrefix(file, offset + HdrLen + len)

\* C3: opening an engine on a log whose last frame is cut in the middle of
\* its payload succeeds, and the state holds the effect of every complete
\* earlier record and nothing of the partial frame.
C3_TornPayloadRecovers ==
  (last.op = "open" /\ hist.torn = "payload") =>
     /\ IsOk(last.res)
     /\ Mem(pool[1]) =
          Mem(open_with_params(
                [disk[Base] EXCEPT !.wal = SubSeq(@, 1, FramedPrefix(@, 0))],
                Base, VectorParams(0, 1), last.order).e)

\* the nine mutating operations of C4 as the calls of this model
MutatingCalls == {"put", "delete", "set_schema"}

\* C4: when the WAL append of a mutating operation fails, the operation
\* returns that error and docs, rows, indexes, schemas, vectors, metadata and
\* graph are exactly as before the call.
C4_AppendFailureLeavesMemory ==
  [][(last'.op \in MutatingCalls /\ ~ last'.io) =>
       /\ ~ IsOk(last'.res)
       /\ Mem(pool'[last'.shard]) = Mem(pool[last'.shard])]_vars

C4_Witness ==
  /\ last.op \in MutatingCalls
  /\ ~ last.io
  /\ last.res = Err("Io")
  /\ Up
  /\ pool[1].docs # EmptyMap \/ pool[1].vector_ns # EmptyMap \/ pool[1].graph # EmptyMap

(***************************************************************************)
(* SQL writes.  A statement is its parsed form: the parts of the table     *)
(* name, the column list and the literals.                                 *)
(***************************************************************************)
\* [family.]ns.coll
split_name(parts) ==
  CASE Len(parts) = 3 -> [ok |-> TRUE, family |-> parts[1], ns |-> parts[2], coll |-> parts[3]]
    [] Len(parts) = 2 -> [ok |-> TRUE, family |-> None, ns |-> parts[1], coll |-> parts[2]]
    [] Len(parts) = 1 -> [ok |-> TRUE, family |-> None, ns |-> "default", coll |-> parts[1]]
    [] OTHER -> [ok |-> FALSE, family |-> None, ns |-> "", coll |-> ""]

\* the collection names of this model that start with rows_, table_ or tbl_
RowPrefixed == {"rows_t"}

target_is_rows(family, coll) ==
  IF family \in {"rows", "tables", "table", "row"} THEN TRUE
  ELSE IF family \in {"docs", "collections", "doc"} THEN FALSE
  ELSE coll \in RowPrefixed

\* n.parse::<f64>() followed by Number::to_string(): every number is a float
F64Text(n) ==
  CASE n = "1" -> "1.0"
    [] n = "2" -> "2.0"
    [] OTHER -> n

\* a literal is <<"num", text>>, <<"str", text>> or <<"bool", text>>;
\* anything else is not supported
literal_to_value(lit) ==
  CASE lit[1] = "num" -> Some(<<"flt", F64Text(lit[2])>>)
    [] lit[1] = "str" -> Some(<<"str", lit[2]>>)
    [] lit[1] = "bool" -> Some(<<"bool", lit[2]>>)
    [] OTHER -> NoneOpt

KnownUuids == {U0, U1, U2, U257, U1b}

\* Uuid::parse_str
parse_str(s) ==
  IF \E u \in KnownUuids : UuidText(u) = s
  THEN Some(CHOOSE u \in KnownUuids : UuidText(u) = s)
  ELSE NoneOpt

\* the object built from the column list and the VALUES row
InsertObject(columns, values) ==
  [k \in {columns[i] : i \in 1..Len(columns)} |->
     literal_to_value(values[CHOOSE i \in 1..Len(columns) :
                               columns[i] = k /\ \A j \in (i + 1)..Len(columns) : columns[j] # k])[1]]

\* the id an INSERT names in its id or _id column (_id wins), if it parses
InsertId(obj) ==
  LET from(k) == IF Has(obj, k) /\ obj[k][1] = "str" THEN parse_str(obj[k][2]) ELSE NoneOpt
  IN IF from("_id") # NoneOpt THEN from("_id") ELSE from("id")

\* exec_insert; `fresh` is the id Uuid::new_v4() returns
exec_insert(e, stmt, fresh, io) ==
  LET name == split_name(stmt.table)
  IN IF ~ name.ok \/ stmt.columns = <<>> \/ Len(stmt.columns) # Len(stmt.values)
        \/ \E i \in 1..Len(stmt.values) : literal_to_value(stmt.values[i]) = NoneOpt
     THEN [e |-> e, res |-> Err("Internal"), ids |-> <<>>]
     ELSE LET obj == InsertObject(stmt.columns, stmt.values)
              uid == IF InsertId(obj) # NoneOpt THEN InsertId(obj)[1] ELSE fresh
              r == put_ns(e, IF target_is_rows(name.family, name.coll) THEN "Row" ELSE "Doc",
                          name.ns, name.coll, uid, obj, io)
          IN [e |-> r.e, res |-> r.res, ids |-> IF IsOk(r.res) THEN <<uid>> ELSE <<>>]

\* Uuid's Ord: byte-wise
RECURSIVE BytesLess(_, _)
BytesLess(a, b) ==
  IF a = <<>> \/ b = <<>> THEN a = <<>> /\ b # <<>>
  ELSE IF Head(a) # Head(b) THEN Head(a) < Head(b)
  ELSE BytesLess(Tail(a), Tail(b))

\* the keys of a BTreeMap<Uuid, _> in iteration order
RECURSIVE Sorted(_)
Sorted(S) ==
  IF S = {} THEN <<>>
  ELSE LET m == CHOOSE x \in S : \A y \in S \ {x} : BytesLess(x, y)
       IN <<m>> \o Sorted(S \ {m})

\* the number a numeric text of this model reads as, and the rank of a
\* string among the strings of this model
TextRank(text) ==
  CASE text \in {"1", "1.0"} -> 1
    [] text \in {"2", "2.0"} -> 2
    [] OTHER -> 0

\* cmp_values: Less (-1), Equal (0) or Greater (1) for two numbers, two
\* strings or two booleans, and nothing for any other pair
cmp_values(a, b) ==
  IF \/ a[1] \in {"int", "flt"} /\ b[1] \in {"int", "flt"}
     \/ a[1] = "str" /\ b[1] = "str"
     \/ a[1] = "bool" /\ b[1] = "bool"
  THEN Some(IF TextRank(a[2]) < TextRank(b[2]) THEN -1
            ELSE IF TextRank(a[2]) > TextRank(b[2]) THEN 1 ELSE 0)
  ELSE NoneOpt

\* one condition of a WHERE clause against a document; the statements of this
\* model compare with =, <> and >
Pass(v, c) ==
  /\ Has(v, c.field)
  /\ CASE c.op = "Eq" -> v[c.field] = c.value
       [] c.op = "Ne" -> v[c.field] # c.value
       [] c.op = "Gt" -> cmp_values(v[c.field], c.value) = Some(1)
       [] OTHER -> FALSE

\* filter_conditions with limit usize::MAX and offset 0: the ids of the
\* collection that this shard owns and that pass every condition, in order
filter_conditions(e, fam, n, c, conds) ==
  LET ids == {id \in {k[3] : k \in {k \in DOMAIN e[DocsField(fam)] : k[1] = n /\ k[2] = c}} :
                /\ owns(e, id)
                /\ \A i \in 1..Len(conds) : Pass(e[DocsField(fam)][<<n, c, id>>], conds[i])}
  IN Sorted(ids)

\* the WHERE clause as conditions; a literal that is not supported is an error
walk_expr(selection) ==
  IF \E i \in 1..Len(selection) : literal_to_value(selection[i].value) = NoneOpt
  THEN [ok |-> FALSE, conds |-> <<>>]
  ELSE [ok |-> TRUE,
        conds |-> [i \in 1..Len(selection) |->
                     [field |-> selection[i].field, op |-> selection[i].op,
                      value |-> literal_to_value(selection[i].value)[1]]]]

\* the matched value with the assignments written into it
Assigned(val, assignments) ==
  IF ~ is_object(val) THEN val
  ELSE [k \in (DOMAIN val) \cup {assignments[i].column : i \in 1..Len(assignments)} |->
          IF \E i \in 1..Len(assignments) : assignments[i].column = k
          THEN literal_to_value(assignments[CHOOSE i \in 1..Len(assignments) :
                  assignments[i].column = k
                  /\ \A j \in (i + 1)..Len(assignments) : assignments[j].column # k].value)[1]
          ELSE val[k]]

\* the loop of exec_update over the matches collected before the first write
RECURSIVE update_matches(_, _, _, _, _, _, _, _)
update_matches(e, fam, n, c, matches, vals, assignments, io) ==
  IF matches = <<>> THEN [e |-> e, res |-> Ok]
  ELSE IF \E i \in 1..Len(assignments) : literal_to_value(assignments[i].value) = NoneOpt
       THEN IF is_object(vals[Head(matches)]) THEN [e |-> e, res |-> Err("Internal")]
            ELSE LET r == put_ns(e, fam, n, c, Head(matches), vals[Head(matches)], io)
                 IN IF IsOk(r.res)
                    THEN update_matches(r.e, fam, n, c, Tail(matches), vals, assignments, io)
                    ELSE r
       ELSE LET r == put_ns(e, fam, n, c, Head(matches),
                            Assigned(vals[Head(matches)], assignments), io)
            IN IF IsOk(r.res)
               THEN update_matches(r.e, fam, n, c, Tail(matches), vals, assignments, io)
               ELSE r

exec_update(e, stmt, io) ==
  LET name == split_name(stmt.table)
      w == walk_expr(stmt.selection)
  IN IF ~ name.ok \/ ~ w.ok THEN [e |-> e, res |-> Err("Internal")]
     ELSE LET fam == IF target_is_rows(name.family, name.coll) THEN "Row" ELSE "Doc"
              matches == filter_conditions(e, fam, name.ns, name.coll, w.conds)
              vals == [id \in {matches[i] : i \in 1..Len(matches)} |->
                         e[DocsField(fam)][<<name.ns, name.coll, id>>]]
          IN update_matches(e, fam, name.ns, name.coll, matches, vals, stmt.assignments, io)

(***************************************************************************)
(* The engine under document and row writes through the API, SQL and       *)
(* replication (SpecIndex).                                                *)
(***************************************************************************)
IndexIds == {U0, U1}

IndexDocs == {Obj("f", JInt1), Obj("f", JFlt1)}

Literals == {<<"num", "1">>, <<"str", "1">>}

\* the SQL name of the default collection of a family
TableOf(fam) == <<IF fam = "Doc" THEN "docs" ELSE "rows", "default", "default">>

InsertStmt(fam, lit) == [table |-> TableOf(fam), columns |-> <<"f">>, values |-> <<lit>>]

InsertWithIdStmt(fam, id, lit) ==
  [table |-> TableOf(fam), columns |-> <<"_id", "f">>,
   values |-> <<<<"str", UuidText(id)>>, lit>>]

UpdateStmt(fam, lit, selection) ==
  [table |-> TableOf(fam), assignments |-> <<[column |-> "f", value |-> lit]>>,
   selection |-> selection]

Selections == {<<>>, <<[field |-> "f", op |-> "Eq", value |-> <<"num", "1">>]>>}

SqlInsert(i, fam, stmt, fresh) ==
  /\ Up /\ nops < MaxOps /\ hist.workload = fam
  /\ LET r == exec_insert(pool[i], stmt, fresh, TRUE)
     IN Commit(i, r, "sql_insert", TRUE, <<>>, UqData(HistOther(hist), r.e, fam))

SqlUpdate(i, fam, stmt) ==
  /\ Up /\ nops < MaxOps /\ hist.workload = fam
  /\ LET r == exec_update(pool[i], stmt, TRUE)
     IN Commit(i, r, "sql_update", TRUE, <<>>, UqData(HistOther(hist), r.e, fam))

\* apply_records on one engine; a call that does not return takes no step
ApplyRecords(i, fam, records) ==
  /\ Up /\ nops < MaxOps /\ hist.workload = fam
  /\ LET r == apply_records(pool[i], records, TRUE)
     IN /\ r.res # Blocked
        /\ Commit(i, r, "apply_records", TRUE, <<>>, [HistOther(hist) EXCEPT !.uq = "void"])

\* the single-record batches a peer's log of this workload holds
PeerRecords(fam, ids, docs) ==
  {<<PutRec(fam, id, to_vec(json), default_ns,
            IF fam = "Doc" THEN default_ns ELSE None,
            IF fam = "Row" THEN default_ns ELSE None)>> : id \in ids, json \in docs}
    \cup {<<DeleteRec(fam, id, default_ns,
                      IF fam = "Doc" THEN default_ns ELSE None,
                      IF fam = "Row" THEN default_ns ELSE None)>> : id \in ids}

InitIndex ==
  /\ pool = <<NewEngine(Base, VectorParams(0, 1))>>
  /\ disk = [d \in Dirs |-> EmptyDir]
  /\ last = Call("open", Ok, 1, TRUE)
  /\ nops = 0
  /\ calls = <<>>
  /\ hist \in {InitHist(w) : w \in {"Doc", "Row"}}

NextIndex ==
  \/ \E fam \in {"Doc", "Row"}, id \in IndexIds, json \in IndexDocs :
       PutDoc(1, fam, <<None, None>>, id, json, TRUE)
  \/ \E fam \in {"Doc", "Row"} : DeleteDoc(1, fam, <<None, None>>, U0, TRUE)
  \/ \E fam \in {"Doc", "Row"} : SetSchema(1, fam, <<None, None>>, UniqueF, TRUE)
  \/ \E fam \in {"Doc", "Row"}, lit \in Literals :
       SqlInsert(1, fam, InsertStmt(fam, lit), U1)
  \/ \E fam \in {"Doc", "Row"} :
       SqlInsert(1, fam, InsertWithIdStmt(fam, U1, <<"num", "1">>), U0)
  \/ \E fam \in {"Doc", "Row"}, sel \in Selections :
       SqlUpdate(1, fam, UpdateStmt(fam, <<"str", "1">>, sel))
  \/ \E fam \in {"Doc", "Row"} : \E recs \in PeerRecords(fam, {U0}, {Obj("f", JFlt1)}) :
       ApplyRecords(1, fam, recs)
  \/ Close
  \/ Open

SpecIndex == InitIndex /\ [][NextIndex]_vars

\* the scalar values of field f held in the watched collection, by id
Held(e, fam, f) ==
  {<<k[3], e[DocsField(fam)][k][f]>> :
     k \in {x \in DOMAIN e[DocsField(fam)] :
              /\ x[1] = default_ns /\ x[2] = default_ns
              /\ Has(e[DocsField(fam)][x], f)
              /\ index_key(e[DocsField(fam)][x][f]) # NoneOpt}}

\* no two distinct stored ids hold the same scalar value for f
UniqueHolds(e, fam, f) ==
  \A x \in Held(e, fam, f), y \in Held(e, fam, f) : x[2] = y[2] => x[1] = y[1]

\* a put of `arg` would give two distinct ids the same scalar value for f
WouldViolate(e, fam, f, arg) ==
  /\ Has(arg.val, f)
  /\ \E x \in Held(e, fam, f) : x[1] # arg.id /\ x[2] = arg.val[f]

C9_RejectedOnlyIfHeld ==
  (Up /\ last.op = "put" /\ last.res = UniqueViolation("f")) =>
     WouldViolate(pool[1], hist.workload, "f", last.arg[1])

\* C10: in every reachable state (put, upsert, delete, replay on open,
\* apply_records) each stored document or row has, for every top-level
\* string, number or boolean field, its id in the index entry
\* ns -> collection -> field -> index_key(value).
C10_StoredFieldsIndexed ==
  Up => \A fam \in {"Doc", "Row"} : \A k \in DOMAIN pool[1][DocsField(fam)] :
          \A x \in IndexKeys(k[1], k[2], pool[1][DocsField(fam)][k]) :
             /\ Has(pool[1][IndexField(fam)], x)
             /\ Contains(pool[1][IndexField(fam)][x], k[3])

C10_Witness ==
  /\ Up
  /\ last.op = "open"
  /\ nops > 0
  /\ \E fam \in {"Doc", "Row"} : \E k \in DOMAIN pool[1][DocsField(fam)] :
        /\ Has(pool[1][DocsField(fam)][k], "f")
        /\ \E x \in DOMAIN pool[1][IndexField(fam)] :
              /\ x[3] = "f"
              /\ Contains(pool[1][IndexField(fam)][x], k[3])
              /\ x \notin IndexKeys(k[1], k[2], pool[1][DocsField(fam)][k])

(***************************************************************************)
(* The server's pool of shards.                                            *)
(***************************************************************************)
\* the directory DbPool::new opens shard i of `shards` in
PoolDir(shards, i) == IF shards > 1 THEN ShardDir(i) ELSE Base

\* DbPool::new: shard i is opened with shard_id i and shard_total
\* max(shards, 1); `orders` gives each directory's read_dir order.  When an
\* open fails the engines opened so far are dropped.
RECURSIVE DropAll(_, _)
DropAll(engines, dsk) ==
  IF engines = <<>> THEN dsk
  ELSE DropAll(Tail(engines), [dsk EXCEPT ![Head(engines).path] = Drop(Head(engines), @)])

RECURSIVE OpenShards(_, _, _, _, _)
OpenShards(dsk, shards, i, orders, opened) ==
  IF i >= shards THEN [ok |-> TRUE, shards |-> opened, disk |-> dsk]
  ELSE LET dir == PoolDir(shards, i)
           r == open_with_params(dsk[dir], dir, VectorParams(i, shards), orders[dir])
       IN IF IsOk(r.res) THEN OpenShards(dsk, shards, i + 1, orders, Append(opened, r.e))
          ELSE [ok |-> FALSE, shards |-> <<>>, disk |-> DropAll(opened, dsk)]

DbPool_new(dsk, shards, orders) ==
  OpenShards(dsk, IF shards < 1 THEN 1 ELSE shards, 0, orders, <<>>)

\* a shard_for that hashes the last eight bytes of the id
shard_for_high_bytes(shards, id) ==
  IF Len(shards) = 1 THEN 1
  ELSE (u64_from_le_bytes(SubSeq(id, 9, 16)) % Len(shards)) + 1

\* DbPool::shard_for: the position (from 1) of the shard that serves id
shard_for(shards, id) ==
  IF Len(shards) = 1 THEN 1
  ELSE (u64_from_le_bytes(SubSeq(id, 1, 8)) % Len(shards)) + 1

\* DbPool::wal_all: the records of every shard's log file, shard by shard
RECURSIVE wal_all(_, _)
wal_all(shards, dsk) ==
  IF shards = <<>> THEN <<>>
  ELSE LET log == wal_dump(dsk[Head(shards).path])
       IN (IF log.res = "Ok" THEN log.records ELSE <<>>) \o wal_all(Tail(shards), dsk)

\* for shard in pool.each() { shard.apply_records(records)? }
RECURSIVE apply_to_each(_, _, _)
apply_to_each(shards, i, records) ==
  IF i > Len(shards) THEN [shards |-> shards, res |-> Ok]
  ELSE LET r == apply_records(shards[i], records, TRUE)
       IN IF IsOk(r.res) THEN apply_to_each([shards EXCEPT ![i] = r.e], i + 1, records)
          ELSE [shards |-> [shards EXCEPT ![i] = r.e], res |-> r.res]

\* replica_apply: the batch goes to every shard
replica_apply(shards, records) == apply_to_each(shards, 1, records)

\* the copy loop of reshard: every record of the old logs to every new shard
RECURSIVE copy_records(_, _)
copy_records(shards, wal) ==
  IF wal = <<>> THEN [shards |-> shards, res |-> Ok]
  ELSE LET r == apply_to_each(shards, 1, <<Head(wal)>>)
       IN IF IsOk(r.res) THEN copy_records(r.shards, Tail(wal)) ELSE r

\* reshard, once the new pool is opened (new_pool) and the records of the old
\* logs are copied into it (copied): on success the new pool replaces the old
\* one, which is dropped; on failure the new engines are dropped
reshard(shards, dsk, new_pool, copied) ==
  IF ~ new_pool.ok THEN [shards |-> shards, disk |-> new_pool.disk, res |-> Err("Internal")]
  ELSE IF ~ IsOk(copied.res)
    THEN [shards |-> shards, disk |-> DropAll(copied.shards, dsk), res |-> copied.res]
  ELSE [shards |-> copied.shards, disk |-> DropAll(shards, dsk), res |-> Ok]

\* one round of the flusher task: flush_wal on every shard
RECURSIVE flush_each(_, _, _)
flush_each(shards, dsk, i) ==
  IF i > Len(shards) THEN [shards |-> shards, disk |-> dsk]
  ELSE LET r == flush_wal(shards[i], dsk[shards[i].path])
       IN flush_each([shards EXCEPT ![i] = r.e], [dsk EXCEPT ![shards[i].path] = r.d], i + 1)

(***************************************************************************)
(* The pool under keyed writes on any shard, replication and resharding    *)
(* (SpecPool).                                                             *)
(***************************************************************************)
PoolIds == {U0, U1}

PoolDoc == Obj("f", JInt1)

PoolVec == <<V1, Some(M1)>>

\* the read_dir orders DbPool::new can meet, one per directory
Orders(dsk) ==
  {f \in [Dirs -> UNION {Perms(DOMAIN dsk[d].snaps) : d \in Dirs}] :
     \A d \in Dirs : f[d] \in Perms(DOMAIN dsk[d].snaps)}

PoolUp == Up /\ nops < MaxPoolOps

PoolPut(i, fam, id) ==
  /\ PoolUp /\ hist.workload = fam
  /\ LET r == put_ns(pool[i], fam, None, None, id, PoolDoc, TRUE)
     IN Commit(i, r, "put", TRUE, Arg(id, PoolDoc), HistOther(hist))

PoolDelete(i, fam, id) ==
  /\ PoolUp /\ hist.workload = fam
  /\ LET r == delete_ns(pool[i], fam, None, None, id, TRUE)
     IN Commit(i, r, "delete", TRUE, Arg(id, <<>>), HistOther(hist))

PoolPutVector(i, id) ==
  /\ PoolUp /\ hist.workload = "Vec"
  /\ LET r == put_vector_with_meta_ns(pool[i], None, id, PoolVec[1], PoolVec[2], TRUE)
     IN Commit(i, r, "put", TRUE, Arg(id, PoolVec), HistOther(hist))

PoolDeleteVector(i, id) ==
  /\ PoolUp /\ hist.workload = "Vec"
  /\ LET r == delete_vector(pool[i], id, TRUE)
     IN Commit(i, r, "delete", TRUE, Arg(id, <<>>), HistOther(hist))

UpdateVectorMeta(i, id, patch) ==
  /\ PoolUp /\ hist.workload = "Vec"
  /\ LET r == update_vector_meta(pool[i], id, patch, TRUE)
     IN Commit(i, r, "update_vector_meta", TRUE, Arg(id, patch), HistOther(hist))

RemoveVectorMetaKeys(i, id, keys) ==
  /\ PoolUp /\ hist.workload = "Vec"
  /\ LET r == remove_vector_meta_keys(pool[i], id, keys, TRUE)
     IN Commit(i, r, "remove_vector_meta_keys", TRUE, Arg(id, keys), HistOther(hist))

PoolAddEdge(i, src, dst) ==
  /\ PoolUp /\ hist.workload = "Graph"
  /\ LET r == add_edge(pool[i], src, dst, 1, TRUE)
     IN Commit(i, r, "put", TRUE, Arg(src, Edge(src, dst, 1)), HistOther(hist))

\* the single-record batches a peer sends in this workload
PoolBatches(w) ==
  CASE w \in {"Doc", "Row"} ->
         {<<PutRec(w, id, to_vec(PoolDoc), default_ns,
                   IF w = "Doc" THEN default_ns ELSE None,
                   IF w = "Row" THEN default_ns ELSE None)>> : id \in PoolIds}
    [] w = "Vec" ->
         {<<PutRec("Vec", id, VecPayload(default_ns, PoolVec[1], PoolVec[2]),
                   default_ns, None, None)>> : id \in PoolIds}
    [] OTHER ->
         {<<PutRec("Graph", id, EdgePayload(id, U0, 1), None, None, None)>> : id \in PoolIds}

ReplicaApply(records) ==
  /\ PoolUp
  /\ LET r == replica_apply(pool, records)
     IN /\ r.res # Blocked
        /\ pool' = r.shards
        /\ last' = Call("replica_apply", r.res, 0, TRUE)
  /\ nops' = nops + 1
  /\ UNCHANGED calls
  /\ hist' = HistOther(hist)
  /\ UNCHANGED disk

\* reshard reads the old logs, opens the new pool on the same data directory
\* while the old one is still open, and applies every record to every new shard
reshard_call(n) ==
  /\ \E orders \in Orders(disk) :
     \E wal \in {wal_all(pool, disk)} :
     \E new_pool \in {DbPool_new(disk, n, orders)} :
     \E copied \in {copy_records(new_pool.shards, wal)} :
       LET r == reshard(pool, disk, new_pool, copied)
       IN /\ r.res # Blocked
          /\ pool' = r.shards
          /\ disk' = r.disk
          /\ last' = Call("reshard", r.res, 0, TRUE)
  /\ nops' = nops + 1
  /\ UNCHANGED calls
  /\ hist' = HistOther(hist)

Reshard(n) == PoolUp /\ reshard_call(n)

\* one tick of the group-commit task
flusher_tick ==
  /\ pool' = flush_each(pool, disk, 1).shards
  /\ disk' = flush_each(pool, disk, 1).disk
  /\ last' = Call("flush_wal", Ok, 0, TRUE)
  /\ nops' = nops + 1
  /\ UNCHANGED calls
  /\ hist' = HistOther(hist)

Flusher == PoolUp /\ flusher_tick

\* the server starts on an empty data directory with 1..MaxShards shards
InitPool ==
  /\ disk = [d \in Dirs |-> EmptyDir]
  /\ \E n \in 1..MaxShards :
       pool = DbPool_new(disk, n, [d \in Dirs |-> <<>>]).shards
  /\ last = Call("open", Ok, 0, TRUE)
  /\ nops = 0
  /\ calls = <<>>
  /\ hist \in {InitHist(w) : w \in {"Doc", "Row", "Vec", "Graph"}}

NextPool ==
  \/ \E i \in 1..Len(pool), fam \in {"Doc", "Row"}, id \in PoolIds : PoolPut(i, fam, id)
  \/ \E i \in 1..Len(pool), fam \in {"Doc", "Row"}, id \in PoolIds : PoolDelete(i, fam, id)
  \/ \E i \in 1..Len(pool), id \in PoolIds : PoolPutVector(i, id)
  \/ \E i \in 1..Len(pool), id \in PoolIds : PoolDeleteVector(i, id)
  \/ \E i \in 1..Len(pool), id \in PoolIds : UpdateVectorMeta(i, id, M2)
  \/ \E i \in 1..Len(pool), id \in PoolIds : RemoveVectorMetaKeys(i, id, {"tag"})
  \/ \E i \in 1..Len(pool), src \in PoolIds : PoolAddEdge(i, src, U0)
  \/ \E records \in PoolBatches(hist.workload) : ReplicaApply(records)
  \/ \E n \in 1..MaxShards : Reshard(n)
  \/ Flusher

SpecPool == InitPool /\ [][NextPool]_vars

(***************************************************************************)
(* Claims about ownership in the pool (SpecPool).                          *)
(***************************************************************************)
KeyedWrites == {"put", "delete", "update_vector_meta", "remove_vector_meta_keys"}

\* the ids the ownership claims range over
OwnershipIds == {U0, U1, U2, U257, U1b}

\* C5: on an engine of a pool with more than one shard, a keyed write called
\* with an id the engine does not own returns WrongShard, appends nothing to
\* the log and leaves memory as it was.
C5_NonOwnedWriteRejected ==
  [][(/\ last'.op \in KeyedWrites
      /\ pool[last'.shard].shard_total > 1
      /\ ~ owns(pool[last'.shard], last'.arg[1].id)) =>
       /\ last'.res = Err("WrongShard")
       /\ pool' = pool
       /\ disk' = disk]_vars

\* the shards of a pool that own u
Owners(u) == {i \in 1..Len(pool) : owns(pool[i], u)}

\* C6: in a pool of S >= 1 shards every id is owned by exactly one shard, that
\* shard is the one shard_for returns, and a put of the id on any other shard
\* returns WrongShard.
C6_ExactlyOneOwner ==
  \A u \in OwnershipIds :
    /\ Owners(u) = {shard_for(pool, u)}
    /\ \A i \in (1..Len(pool)) \ {shard_for(pool, u)} :
         /\ put_doc_ns(pool[i], None, None, u, PoolDoc, TRUE).res = Err("WrongShard")
         /\ put_row_ns(pool[i], None, None, u, PoolDoc, TRUE).res = Err("WrongShard")
         /\ put_vector_with_meta_ns(pool[i], None, u, V1, NoneOpt, TRUE).res = Err("WrongShard")

\* a put that reached a shard other than the one shard_for names, in a pool
\* of more than one shard that holds a document
C6_Witness ==
  /\ Len(pool) > 1
  /\ last.op = "put"
  /\ last.res = Err("WrongShard")
  /\ last.shard # shard_for(pool, last.arg[1].id)
  /\ \E i \in 1..Len(pool) : pool[i].docs # EmptyMap

\* the ids a shard holds in memory as docs, rows or vectors
HeldIds(e) ==
  {k[3] : k \in DOMAIN e.docs} \cup {k[3] : k \in DOMAIN e.rows}
    \cup UNION {DOMAIN e.vectors[n].inner : n \in DOMAIN e.vectors}

\* C7: in a pool of S > 1 shards, shard i holds in memory only docs, rows and
\* vectors whose id hashes to i modulo S.
C7_ShardHoldsOnlyOwned ==
  Len(pool) > 1 =>
    \A i \in 1..Len(pool) : \A id \in HeldIds(pool[i]) :
      shard_hash(id) % Len(pool) = i - 1

(***************************************************************************)
(* Claims about removal from the secondary index (SpecIndex).              *)
(***************************************************************************)
\* the ids the value lists of the index of collection (n, c) hold
IndexedIds(e, fam, n, c) ==
  UNION {{e[IndexField(fam)][x][j] : j \in 1..Len(e[IndexField(fam)][x])} :
           x \in {y \in DOMAIN e[IndexField(fam)] : y[1] = n /\ y[2] = c}}

\* the collections the index of a family has entries for
IndexedCollections(e, fam) == {<<x[1], x[2]>> : x \in DOMAIN e[IndexField(fam)]}

\* C11: after delete_doc_ns / delete_row_ns (or a replayed Delete record) has
\* removed an id from a collection, the id is in no value list of any field of
\* that collection's index, whatever upserts preceded the delete.  Only a put
\* enters an id in the index, so an id that is indexed and not stored is one a
\* delete removed.
C11_DeletedIdScrubbed ==
  Up => \A fam \in {"Doc", "Row"} : \A nc \in IndexedCollections(pool[1], fam) :
          \A id \in IndexedIds(pool[1], fam, nc[1], nc[2]) :
            Has(pool[1][DocsField(fam)], <<nc[1], nc[2], id>>)

(***************************************************************************)
(* Queries: the full scan and the equality-index shortcut.  A filter is a  *)
(* map from field names to the scalars they must equal.                    *)
(***************************************************************************)
\* value_matches with conditions that are plain values (value_compare's
\* `field == cond` branch)
value_matches(doc, filter) ==
  \A k \in DOMAIN filter : Has(doc, k) /\ doc[k] = filter[k]

\* collect_filtered_inner: `ids` are the keys of the BTreeMap still to visit
RECURSIVE collect_filtered_inner(_, _, _, _, _, _, _)
collect_filtered_inner(e, inner, ids, filter, limit, offset, acc) ==
  IF ids = <<>> THEN acc
  ELSE LET id == Head(ids)
           v == inner[id]
       IN IF ~ owns(e, id) \/ ~ value_matches(v, filter)
          THEN collect_filtered_inner(e, inner, Tail(ids), filter, limit, offset, acc)
          ELSE IF acc.skipped < offset
          THEN collect_filtered_inner(e, inner, Tail(ids), filter, limit, offset,
                                      [acc EXCEPT !.skipped = @ + 1])
          ELSE IF Len(acc.out) < limit
          THEN IF Len(acc.out) + 1 >= limit
               THEN [acc EXCEPT !.out = Append(@, <<id, v>>)]
               ELSE collect_filtered_inner(e, inner, Tail(ids), filter, limit, offset,
                                           [acc EXCEPT !.out = Append(@, <<id, v>>)])
          ELSE collect_filtered_inner(e, inner, Tail(ids), filter, limit, offset, acc)

\* the BTreeMap<Uuid, Value> of collection (n, c)
Inner(e, fam, n, c) ==
  [id \in {k[3] : k \in {x \in DOMAIN e[DocsField(fam)] : x[1] = n /\ x[2] = c}} |->
     e[DocsField(fam)][<<n, c, id>>]]

\* filter_map for a given namespace and collection: the full scan
filter_map(e, fam, n, c, filter, limit, offset) ==
  LET inner == Inner(e, fam, n, c)
  IN collect_filtered_inner(e, inner, Sorted(DOMAIN inner), filter, limit, offset,
                            [out |-> <<>>, skipped |-> 0]).out

\* the candidate ids of filter_map_with_index: the index lists of the filter's
\* fields, visited in the HashMap's order `fields`, each list filtered by the
\* candidates so far
RECURSIVE Candidate(_, _, _, _, _, _)
Candidate(index, n, c, filter, fields, candidate) ==
  IF fields = <<>> THEN candidate
  ELSE LET field == Head(fields)
           key == index_key(filter[field])
       IN IF key # NoneOpt /\ Has(index, <<n, c, field, key[1]>>)
          THEN LET ids == index[<<n, c, field, key[1]>>]
               IN Candidate(index, n, c, filter, Tail(fields),
                    IF candidate = NoneOpt THEN Some(ids)
                    ELSE Some(SelectSeq(ids, LAMBDA i : Contains(candidate[1], i))))
          ELSE Candidate(index, n, c, filter, Tail(fields), candidate)

\* the loop of the index path over the candidate ids
RECURSIVE index_scan(_, _, _, _, _, _, _)
index_scan(e, inner, ids, filter, limit, offset, acc) ==
  IF ids = <<>> THEN acc
  ELSE LET id == Head(ids)
       IN IF ~ owns(e, id) \/ ~ Has(inner, id) \/ ~ value_matches(inner[id], filter)
          THEN index_scan(e, inner, Tail(ids), filter, limit, offset, acc)
          ELSE IF acc.skipped < offset
          THEN index_scan(e, inner, Tail(ids), filter, limit, offset,
                          [acc EXCEPT !.skipped = @ + 1])
          ELSE IF Len(acc.out) + 1 >= limit
          THEN [acc EXCEPT !.out = Append(@, <<id, inner[id]>>)]
          ELSE index_scan(e, inner, Tail(ids), filter, limit, offset,
                          [acc EXCEPT !.out = Append(@, <<id, inner[id]>>)])

\* the row count the cost heuristic reads: the docs counter of Stats for
\* docs and rows alike, else the size of the collection
TotalRows(e, fam, n, c) ==
  IF Has(e.stats, <<"Doc", n, c>>) THEN e.stats[<<"Doc", n, c>>]
  ELSE Cardinality(DOMAIN Inner(e, fam, n, c))

Threshold(total_rows) == IF total_rows \div 2 > 10 THEN total_rows \div 2 ELSE 10

CollectionKnown(e, fam, n, c) == <<n, c>> \in e[ColsField(fam)]

IndexKnown(e, fam, n, c) ==
  \E x \in DOMAIN e[IndexField(fam)] : x[1] = n /\ x[2] = c

\* filter_map_with_index for a given namespace and collection
filter_map_with_index(e, fam, n, c, filter, fields, limit, offset) ==
  LET candidate == Candidate(e[IndexField(fam)], n, c, filter, fields, NoneOpt)
      inner == Inner(e, fam, n, c)
  IN IF /\ IndexKnown(e, fam, n, c)
        /\ candidate # NoneOpt
        /\ CollectionKnown(e, fam, n, c)
        /\ Len(candidate[1]) <= Threshold(TotalRows(e, fam, n, c))
     THEN index_scan(e, inner, candidate[1], filter, limit, offset,
                     [out |-> <<>>, skipped |-> 0]).out
     ELSE filter_map(e, fam, n, c, filter, limit, offset)

query_ns(e, fam, n, c, filter, fields, limit, offset) ==
  filter_map_with_index(e, fam, n, c, filter, fields, limit, offset)

(***************************************************************************)
(* An engine under puts, deletes and queries (SpecQuery).                  *)
(***************************************************************************)
Filters == {EmptyMap, Obj("f", JInt1), Obj("f", JStr1)}

Limits == {0, 1, 2}

Offsets == {0, 1}

\* query_docs_ns / query_rows_ns on the default namespace and collection
Query(i, fam, filter, limit, offset) ==
  /\ Up /\ nops < MaxOps /\ hist.workload = fam
  /\ \E fields \in Perms(DOMAIN filter) :
       LET out == query_ns(pool[i], fam, default_ns, default_ns, filter, fields, limit, offset)
       IN last' = [Call("query", Ok, i, TRUE) EXCEPT
                     !.arg = Arg(NoUuid, [filter |-> filter, limit |-> limit,
                                          offset |-> offset, out |-> out])]
  /\ nops' = nops + 1
  /\ UNCHANGED calls
  /\ hist' = HistOther(hist)
  /\ UNCHANGED <<pool, disk>>

NextQuery ==
  \/ \E fam \in {"Doc", "Row"}, id \in IndexIds, json \in IndexDocs :
       PutDoc(1, fam, <<None, None>>, id, json, TRUE)
  \/ \E fam \in {"Doc", "Row"} : DeleteDoc(1, fam, <<None, None>>, U0, TRUE)
  \/ \E fam \in {"Doc", "Row"}, filter \in Filters, limit \in Limits, offset \in Offsets :
       Query(1, fam, filter, limit, offset)

SpecQuery == InitIndex /\ [][NextQuery]_vars

\* C12: for an equality-only filter on scalar fields and any limit and offset,
\* a query on a given namespace and collection returns what the full scan
\* over that collection returns, whether or not the index path was taken.
C12_IndexPathEqualsScan ==
  (Up /\ last.op = "query") =>
     last.arg[1].val.out =
       filter_map(pool[last.shard], hist.workload, default_ns, default_ns,
                  last.arg[1].val.filter, last.arg[1].val.limit, last.arg[1].val.offset)

(***************************************************************************)
(* An engine under vector writes, vacuum and restarts (SpecVector).        *)
(***************************************************************************)
\* vectors of two lengths
W1 == <<1>>

W2 == <<1, 2>>

VectorNamespaces == {None, "a"}

VectorMetas == {NoneOpt, Some(M1)}

\* put_vector_with_meta_ns; the call is kept with its namespace
PutVectorNs(i, nsopt, id, vector, meta) ==
  /\ Up /\ nops < MaxOps /\ hist.workload = "Vec"
  /\ LET r == put_vector_with_meta_ns(pool[i], nsopt, id, vector, meta, TRUE)
     IN Commit(i, r, "put_vector", TRUE,
               Arg(id, [namespace |-> ns(nsopt), vector |-> vector, meta |-> meta]),
               HistPut(hist, Item("Vec", nsopt, None, id), <<vector, meta>>, r.res))

InitVector ==
  /\ pool = <<NewEngine(Base, VectorParams(0, 1))>>
  /\ disk = [d \in Dirs |-> EmptyDir]
  /\ last = Call("open", Ok, 1, TRUE)
  /\ nops = 0
  /\ calls = <<>>
  /\ hist = InitHist("Vec")

NextVector ==
  \/ \E nsopt \in VectorNamespaces, vector \in {W1, W2}, meta \in VectorMetas :
       PutVectorNs(1, nsopt, U0, vector, meta)
  \/ DeleteVector(1, U0, TRUE)
  \/ FlushWal(1)
  \/ Vacuum(1)
  \/ Close
  \/ Open

SpecVector == InitVector /\ [][NextVector]_vars

\* the put of this step finds its namespace with a dimension other than the
\* length of its vector
Mismatched(e, arg) ==
  /\ Has(e.vectors, arg.val.namespace)
  /\ e.vectors[arg.val.namespace].dim # NoneOpt
  /\ e.vectors[arg.val.namespace].dim[1] # Len(arg.val.vector)

\* C13: a put of a vector whose length differs from the dimension fixed for
\* its namespace returns a Validation / DimensionMismatch error and leaves the
\* namespace's index (ids, vectors, metadata, tombstones) as it was.
C13_MismatchRejected ==
  [][(last'.op = "put_vector" /\ Mismatched(pool[1], last'.arg[1])) =>
       /\ last'.res \in {Err("Validation"), Err("DimensionMismatch")}
       /\ pool'[1].vectors[last'.arg[1].val.namespace]
            = pool[1].vectors[last'.arg[1].val.namespace]]_vars

(***************************************************************************)
(* Vector calls running on several threads.  A call in flight is a record  *)
(* with its arguments and its position pc; each step below is one critical *)
(* section of put_vector_with_meta_ns / VectorIndex::insert or of          *)
(* delete_vector / VectorIndex::delete.                                    *)
(***************************************************************************)
PutCall(id, namespace, vector, meta) ==
  [op |-> "put_vector", id |-> id, namespace |-> namespace, vector |-> vector,
   meta |-> meta, pc |-> "append"]

DeleteCall(id) ==
  [op |-> "delete_vector", id |-> id, namespace |-> None, vector |-> <<>>,
   meta |-> NoneOpt, pc |-> "lookup"]

\* the index of the call's namespace, as a step changes it
WithIndex(e, n, idx) == [e EXCEPT !.vectors = MapPut(@, n, idx)]

\* an insert whose dimension step adopts the length of every vector
insert_dim_unchecked(idx, vector) ==
  [idx |-> [idx EXCEPT !.dim = Some(Len(vector))], res |-> Ok]

\* VectorIndex::insert, under the write guard of dim: adopt or compare
insert_dim(idx, vector) ==
  IF idx.dim # NoneOpt /\ Len(vector) # idx.dim[1]
  THEN [idx |-> idx, res |-> Err("NotFound")]
  ELSE [idx |-> [idx EXCEPT !.dim = Some(Len(vector))], res |-> Ok]

\* one step of a put in flight: [e, call, res]; res is NoneOpt until it returns
put_step(e, c) ==
  LET n == c.namespace
      idx == e.vectors[n]
      go(e1, pc) == [e |-> e1, call |-> [c EXCEPT !.pc = pc], res |-> NoneOpt]
  IN CASE c.pc = "append" ->
            IF ~ owns(e, c.id) THEN [e |-> e, call |-> c, res |-> Some(Err("WrongShard"))]
            ELSE LET e1 == append_record(e, PutRec("Vec", c.id, VecPayload(n, c.vector, c.meta),
                                                   n, None, None))
                 IN go([e1 EXCEPT !.vectors = vector_index(@, n)], "dim")
       [] c.pc = "dim" ->
            LET r == insert_dim(idx, c.vector)
            IN IF IsOk(r.res) THEN go(WithIndex(e, n, r.idx), "inner")
               ELSE [e |-> e, call |-> c, res |-> Some(r.res)]
       [] c.pc = "inner" ->
            go(WithIndex(e, n, [idx EXCEPT !.inner = MapPut(@, c.id, c.vector)]), "meta")
       [] c.pc = "meta" ->
            go(WithIndex(e, n, [idx EXCEPT !.meta = IF c.meta # NoneOpt
                                                     THEN MapPut(@, c.id, c.meta[1]) ELSE @]),
               "tombstones")
       [] c.pc = "tombstones" ->
            go(WithIndex(e, n, [idx EXCEPT !.tombstones = @ \ {c.id}]), "hnsw")
       [] c.pc = "hnsw" ->
            go(WithIndex(e, n, hnsw_insert(idx, c.id, c.vector)), "vector_ns")
       [] OTHER ->
            [e |-> auto_link_neighbors([e EXCEPT !.vector_ns = MapPut(@, c.id, n)], c.id, n),
             call |-> c, res |-> Some(Ok)]

\* one step of a delete in flight
delete_step(e, c) ==
  LET n == c.namespace
      go(e1, pc) == [e |-> e1, call |-> [c EXCEPT !.pc = pc], res |-> NoneOpt]
  IN CASE c.pc = "lookup" ->
            IF ~ owns(e, c.id) THEN [e |-> e, call |-> c, res |-> Some(Err("WrongShard"))]
            ELSE [e |-> e, call |-> [c EXCEPT !.namespace = NsOf(e, c.id), !.pc = "append"],
                  res |-> NoneOpt]
       [] c.pc = "append" ->
            go(append_record(e, DeleteRec("Vec", c.id, n, None, None)), "inner")
       [] c.pc = "inner" ->
            IF Has(e.vectors, n)
            THEN go(WithIndex(e, n, [e.vectors[n] EXCEPT !.inner = MapDel(@, c.id)]),
                    "tombstones")
            ELSE go(e, "vector_ns")
       [] c.pc = "tombstones" ->
            go(WithIndex(e, n, [e.vectors[n] EXCEPT !.tombstones = @ \cup {c.id}]), "rebuild")
       [] c.pc = "rebuild" ->
            go(WithIndex(e, n, maybe_rebuild(e.vectors[n])), "vector_ns")
       [] OTHER ->
            [e |-> [e EXCEPT !.vector_ns = MapDel(@, c.id)], call |-> c, res |-> Some(Ok)]

call_step(e, c) == IF c.op = "put_vector" THEN put_step(e, c) ELSE delete_step(e, c)

(***************************************************************************)
(* An engine with vector calls in flight (SpecRace).                       *)
(***************************************************************************)
\* calls in flight at one time
MaxCalls == 2

\* calls and restarts in one behaviour with calls in flight
MaxRaceOps == 3

\* SpecRace stops at MaxRaceOps operations
RaceBudget == nops < MaxRaceOps

RaceCalls ==
  {PutCall(U0, default_ns, W1, NoneOpt), PutCall(U0, default_ns, W2, Some(M1)),
   DeleteCall(U0)}

\* a thread enters put_vector_with_meta_ns or delete_vector
StartCall(c) ==
  /\ Up /\ RaceBudget /\ Len(calls) < MaxCalls
  /\ calls' = Append(calls, c)
  /\ nops' = nops + 1
  /\ hist' = HistOther(hist)
  /\ UNCHANGED <<pool, disk, last>>

\* the thread of call t runs its next critical section; a call that returns
\* leaves `calls` and becomes `last`
StepCall(t) ==
  /\ Up /\ t \in 1..Len(calls)
  /\ \E r \in {call_step(pool[1], calls[t])} :
       /\ pool' = [pool EXCEPT ![1] = r.e]
       /\ IF r.res = NoneOpt
          THEN /\ calls' = [calls EXCEPT ![t] = r.call]
               /\ UNCHANGED last
          ELSE /\ calls' = SubSeq(calls, 1, t - 1) \o SubSeq(calls, t + 1, Len(calls))
               /\ last' = [Call(r.call.op, r.res[1], 1, TRUE) EXCEPT
                             !.arg = Arg(r.call.id, [namespace |-> r.call.namespace,
                                                     vector |-> r.call.vector,
                                                     meta |-> r.call.meta])]
  /\ UNCHANGED <<disk, nops, hist>>

\* the Put records of vectors a peer sends
VectorBatches ==
  {<<PutRec("Vec", U1, VecPayload(default_ns, v, NoneOpt), default_ns, None, None)>> :
     v \in {W1, W2}}

\* the engine is dropped once no call holds it
RaceClose == calls = <<>> /\ Close

NextRace ==
  \/ \E c \in RaceCalls : StartCall(c)
  \/ \E t \in 1..MaxCalls : StepCall(t)
  \/ \E records \in VectorBatches : RaceBudget /\ ApplyRecords(1, "Vec", records)
  \/ RaceBudget /\ Vacuum(1)
  \/ RaceBudget /\ RaceClose
  \/ RaceBudget /\ Open

SpecRace == InitVector /\ [][NextRace]_vars

\* C14: all vectors stored in one namespace's index have the same length, the
\* dimension the namespace adopted at its first insert; across inserts,
\* deletes, snapshot loads, apply_records and concurrent inserts.
C14_OneDimension ==
  Up => \A n \in DOMAIN pool[1].vectors : \A id \in DOMAIN pool[1].vectors[n].inner :
          /\ pool[1].vectors[n].dim # NoneOpt
          /\ Len(pool[1].vectors[n].inner[id]) = pool[1].vectors[n].dim[1]

\* a put that ran beside another call was refused for its length while the
\* index holds a vector
C14_Witness ==
  /\ Up
  /\ last.op = "put_vector"
  /\ last.res = Err("NotFound")
  /\ calls # <<>>
  /\ \E n \in DOMAIN pool[1].vectors : pool[1].vectors[n].inner # EmptyMap

\* C15: in every state reached by interleavings of concurrent put_vector and
\* delete_vector calls on one id, the id is never both in the primary map
\* (get_vector returns Some) and in the tombstone set.
C15_NeverStoredAndTombstoned ==
  Up => \A id \in {U0, U1} :
          ~ (/\ get_vector(pool[1], id) # NoneOpt
             /\ id \in pool[1].vectors[NsOf(pool[1], id)].tombstones)

(***************************************************************************)
(* The graph workload (SpecGraph): add_edge calls on one engine; hist      *)
(* keeps the successful calls in the order they were made.                 *)
(***************************************************************************)
GraphSrcs == {U0, U1}

GraphDsts == {U0, U1, U2}

InitGraphHist == [workload |-> "Graph", edges |-> <<>>]

GraphAddEdge(i, src, dst, w, io) ==
  /\ Up /\ nops < MaxOps
  /\ LET r == add_edge(pool[i], src, dst, w, io)
     IN Commit(i, r, "add_edge", io, Arg(src, Edge(src, dst, w)),
               IF IsOk(r.res) THEN [hist EXCEPT !.edges = Append(@, Edge(src, dst, w))]
               ELSE hist)

InitGraph ==
  /\ pool = <<NewEngine(Base, VectorParams(0, 1))>>
  /\ disk = [d \in Dirs |-> EmptyDir]
  /\ last = Call("open", Ok, 1, TRUE)
  /\ nops = 0
  /\ calls = <<>>
  /\ hist = InitGraphHist

NextGraph ==
  \E src \in GraphSrcs, dst \in GraphDsts, w \in Weights : GraphAddEdge(1, src, dst, w, TRUE)

SpecGraph == InitGraph /\ [][NextGraph]_vars

\* the adjacency list of src
Adjacency(e, src) == IF Has(e.graph, src) THEN e.graph[src] ELSE <<>>

\* the successful add_edge calls made with this src, oldest first
CallsFrom(src) == SelectSeq(hist.edges, LAMBDA c : c.src = src)

\* C16: after any sequence of add_edge calls, the adjacency list of every src
\* holds exactly the dsts it was called with, each once, with the weight of
\* the most recent add_edge(src, dst, w), in the order the dsts were first
\* added, and neighbors(src, n) is the first n edges of that list.
C16_OneEdgePerDst ==
  \A src \in GraphSrcs :
    LET adj == Adjacency(pool[1], src)
        cs == CallsFrom(src)
        FirstCall(d) == CHOOSE i \in 1..Len(cs) :
                          cs[i].dst = d /\ \A j \in 1..(i - 1) : cs[j].dst # d
        LastCall(d) == CHOOSE i \in 1..Len(cs) :
                         cs[i].dst = d /\ \A j \in (i + 1)..Len(cs) : cs[j].dst # d
    IN /\ \A i, j \in 1..Len(adj) : i # j => adj[i].dst # adj[j].dst
       /\ {adj[i].dst : i \in 1..Len(adj)} = {cs[i].dst : i \in 1..Len(cs)}
       /\ \A i \in 1..Len(adj) : adj[i] = Edge(src, adj[i].dst, cs[LastCall(adj[i].dst)].weight)
       /\ \A i, j \in 1..Len(adj) : i < j => FirstCall(adj[i].dst) < FirstCall(adj[j].dst)
       /\ \A n \in 0..NeighborLimit :
            neighbors(pool[1], src, n) = SubSeq(adj, 1, IF n < Len(adj) THEN n ELSE Len(adj))

\* an edge added first had its weight overwritten after a second edge of the
\* same src was added
C16_Witness ==
  /\ last.op = "add_edge" /\ IsOk(last.res)
  /\ Len(Adjacency(pool[1], last.arg[1].id)) >= 2
  /\ Adjacency(pool[1], last.arg[1].id)[1] = last.arg[1].val
  /\ \E i \in 1..(Len(hist.edges) - 1) :
       /\ hist.edges[i].src = last.arg[1].id
       /\ hist.edges[i].dst = last.arg[1].val.dst
       /\ hist.edges[i].weight # last.arg[1].val.weight

(***************************************************************************)
(* Claims about vacuum (SpecVector).                                       *)
(***************************************************************************)
\* C17: when vacuum() returns Ok, every namespace's tombstone set is empty
\* and the WAL file has length 0, whether the records of the writes before
\* it had been flushed to the file or were still in the write buffer.
C17_VacuumEmptiesTombstonesAndWal ==
  [][(last'.op = "vacuum" /\ IsOk(last'.res)) =>
       /\ \A n \in DOMAIN pool'[1].vectors : pool'[1].vectors[n].tombstones = {}
       /\ Len(disk'[Base].wal) = 0]_vars

(***************************************************************************)
(* The search workload (SpecSearch): puts into two namespaces, deletes,    *)
(* rebuilds, vacuum and searches on one engine.                            *)
(***************************************************************************)
SearchIds == {U0, U1}

\* what a put stores: a vector without metadata or one with
SearchInputs == {<<V1, NoneOpt>>, <<V2, Some(M1)>>}

\* a search is aimed at every namespace (NoneOpt) or at one
SearchTargets == {NoneOpt} \cup {Some(n) : n \in VectorNamespaces}

\* k and the metadata filter of a search
SearchLimits == {<<2, NoneOpt>>, <<1, Some(M1)>>}

RebuildVectors(i) ==
  /\ Up /\ nops < MaxOps
  /\ pool' = [pool EXCEPT ![i] = rebuild_vectors(@)]
  /\ last' = Call("rebuild_vectors", Ok, i, TRUE)
  /\ nops' = nops + 1
  /\ UNCHANGED calls
  /\ hist' = HistOther(hist)
  /\ UNCHANGED disk

\* search_vector / search_vector_metric (no target) or search_vector_metric_ns
Search(i, target, query, k, filter_meta) ==
  /\ Up /\ nops < MaxOps
  /\ \E order \in Perms(DOMAIN pool[i].vectors) :
       LET r == IF target = NoneOpt
                THEN search_vector_metric(pool[i], order, query, k, filter_meta)
                ELSE search_vector_metric_ns(pool[i], target[1], query, k, filter_meta)
       IN /\ pool' = [pool EXCEPT ![i] = r.e]
          /\ last' = [Call("search", r.res, i, TRUE) EXCEPT
                        !.arg = Arg(NoUuid, [target |-> target, k |-> k,
                                             filter_meta |-> filter_meta, hits |-> r.hits])]
  /\ nops' = nops + 1
  /\ UNCHANGED calls
  /\ hist' = HistOther(hist)
  /\ UNCHANGED disk

NextSearch ==
  \/ \E nsopt \in VectorNamespaces, id \in SearchIds, v \in SearchInputs :
       PutVectorNs(1, nsopt, id, v[1], v[2])
  \/ \E id \in SearchIds : DeleteVector(1, id, TRUE)
  \/ RebuildVectors(1)
  \/ Vacuum(1)
  \/ \E target \in SearchTargets, kf \in SearchLimits : Search(1, target, V1, kf[1], kf[2])

SpecSearch == InitVector /\ [][NextSearch]_vars

\* the ids whose last successful vector call was a delete
DeletedIds == {x.id : x \in {y \in hist.gone : y.fam = "Vec"}}

\* C18: after delete_vector(id) succeeds and until id is put again, no
\* search (over all namespaces or one, with or without a metadata filter,
\* before or after an automatic rebuild, rebuild_vectors or vacuum) returns
\* a hit with that id, whichever namespaces id had been put into before.
C18_DeletedIdNeverHit ==
  [][last'.op = "search" =>
       \A i \in 1..Len(last'.arg[1].val.hits) :
         last'.arg[1].val.hits[i].id \notin DeletedIds]_vars

(***************************************************************************)
(* Replication to a follower (SpecFollow): a leader reached by successful  *)
(* calls, then a fresh engine fed the leader's log through apply_records.  *)
(***************************************************************************)
RECURSIVE SumOver(_, _)
SumOver(f, keys) == IF keys = <<>> THEN 0 ELSE f[Head(keys)] + SumOver(f, Tail(keys))

\* metrics(): docs and rows add up the sizes of the per-namespace maps, that
\* is the collections and tables that exist; vectors and vector_tombstones
\* add up the namespaces' primary maps and tombstone sets
metrics(e) ==
  [docs |-> Cardinality(e.doc_cols),
   rows |-> Cardinality(e.row_cols),
   vectors |-> SumOver([n \in DOMAIN e.vectors |-> Cardinality(DOMAIN e.vectors[n].inner)],
                       SetToSeq(DOMAIN e.vectors)),
   vector_tombstones |-> SumOver([n \in DOMAIN e.vectors |->
                                    Cardinality(e.vectors[n].tombstones)],
                                 SetToSeq(DOMAIN e.vectors))]

\* the follower's directory
FollowerDir == ShardDir(0)

\* a new engine on the follower's directory applies the records
\* wal_replay_since(0) reads from the leader's log; when apply_records does
\* not return, the follower is left as the call left it (res is Blocked)
Follow ==
  /\ Up /\ Len(pool) = 1 /\ nops < MaxOps
  /\ pool[1].wal.buf = <<>>
  /\ \E log \in {replay_since(disk[Base].wal, 0)} :
       \E r \in {apply_records(NewEngine(FollowerDir, VectorParams(0, 1)), log.records, TRUE)} :
         /\ log.res = "Ok"
         /\ pool' = <<pool[1], r.e>>
         /\ last' = Call("follow", r.res, 2, TRUE)
  /\ nops' = nops + 1
  /\ UNCHANGED calls
  /\ hist' = HistOther(hist)
  /\ UNCHANGED disk

\* no follower yet
Leading == Len(pool) = 1

\* the call just made returned Ok
Succeeded == IsOk(last'.res)

\* the leader's calls, each one successful, then the follower
NextFollow ==
  \/ \E fam \in {"Doc", "Row"}, a \in Addrs, id \in EngineIds, json \in Docs :
       Leading /\ PutDoc(1, fam, a, id, json, TRUE) /\ Succeeded
  \/ \E fam \in {"Doc", "Row"}, a \in Addrs, id \in EngineIds :
       Leading /\ DeleteDoc(1, fam, a, id, TRUE) /\ Succeeded
  \/ \E nsopt \in {None, "a"}, id \in EngineIds, v \in VecInputs :
       Leading /\ PutVector(1, nsopt, id, v, TRUE) /\ Succeeded
  \/ \E id \in EngineIds : Leading /\ DeleteVector(1, id, TRUE) /\ Succeeded
  \/ \E src \in EngineIds, dst \in {U0, U1}, w \in Weights :
       Leading /\ AddEdge(1, src, dst, w, TRUE) /\ Succeeded
  \/ Leading /\ FlushWal(1) /\ Succeeded
  \/ Leading /\ Vacuum(1) /\ Succeeded
  \/ Follow

SpecFollow == InitEngine /\ [][NextFollow]_vars

\* the log of an engine as its file will hold it once flushed
WalContent(e, d) == FlushBuf(d.wal, e.wal).file

\* C19: for a leader reached by successful operations, with its WAL flushed,
\* apply_records(wal_replay_since(0).records) on a fresh engine returns Ok
\* and gives a follower whose WAL content is byte-identical to the leader's
\* and whose metrics (docs, rows, vectors, vector_tombstones) equal the
\* leader's.
C19_FollowerEqualsLeader ==
  [][last'.op = "follow" =>
       /\ IsOk(last'.res)
       /\ WalContent(pool'[2], disk'[FollowerDir]) = WalContent(pool'[1], disk'[Base])
       /\ metrics(pool'[2]) = metrics(pool'[1])]_vars

(***************************************************************************)
(* Replicated batches applied to a live engine (SpecApply): local calls    *)
(* and apply_records of batches of one or two records.                     *)
(***************************************************************************)
\* the records a peer may send for a workload
ReplicaRecords(fam) ==
  CASE fam \in {"Doc", "Row"} ->
         {PutRec(fam, U0, to_vec(json), default_ns,
                 IF fam = "Doc" THEN default_ns ELSE None,
                 IF fam = "Row" THEN default_ns ELSE None) : json \in IndexDocs}
           \cup {DeleteRec(fam, U0, default_ns,
                           IF fam = "Doc" THEN default_ns ELSE None,
                           IF fam = "Row" THEN default_ns ELSE None)}
    [] fam = "Vec" ->
         {PutRec("Vec", U0, VecPayload(default_ns, V1, Some(M1)), default_ns, None, None),
          DeleteRec("Vec", U0, default_ns, None, None)}
    [] OTHER ->
         {PutRec("Graph", U0, EdgePayload(U0, U1, w), None, None, None) : w \in Weights}
           \cup {DeleteRec("Graph", U0, None, None, None)}

ReplicaBatches(fam) ==
  {<<r>> : r \in ReplicaRecords(fam)}
    \cup {<<r, s>> : r \in ReplicaRecords(fam), s \in ReplicaRecords(fam)}

\* apply_records; the batch is kept with the call.  A call that does not
\* return takes no step.
ApplyBatch(i, records) ==
  /\ Up /\ nops < MaxOps
  /\ \E r \in {apply_records(pool[i], records, TRUE)} :
       /\ r.res # Blocked
       /\ Commit(i, r, "apply_records", TRUE, Arg(NoUuid, records), HistOther(hist))

NextApply ==
  \/ \E fam \in {"Doc", "Row"}, json \in IndexDocs : PutDoc(1, fam, <<None, None>>, U0, json, TRUE)
  \/ \E fam \in {"Doc", "Row"} : DeleteDoc(1, fam, <<None, None>>, U0, TRUE)
  \/ \E v \in VecInputs : PutVector(1, None, U0, v, TRUE)
  \/ DeleteVector(1, U0, TRUE)
  \/ \E w \in Weights : AddEdge(1, U0, U1, w, TRUE)
  \/ \E records \in ReplicaBatches(hist.workload) : ApplyBatch(1, records)

SpecApply == InitEngine /\ [][NextApply]_vars

\* the key of a Delete record is stored nowhere the record could remove it from
Absent(e, rec) ==
  CASE rec.family \in {"Doc", "Row"} ->
         ~ Has(e[DocsField(rec.family)], <<ns(rec.namespace), RecCol(rec), rec.key>>)
    [] rec.family = "Vec" -> \A n \in DOMAIN e.vectors : ~ Has(e.vectors[n].inner, rec.key)
    [] OTHER -> TRUE

\* C20: applying a batch a second time with apply_records returns and leaves
\* the in-memory state (docs, rows, secondary indexes, schemas, vectors,
\* metadata, graph) the first application left, and a Delete record for a
\* key that is absent changes nothing in memory.
C20_ApplyTwiceIsApplyOnce ==
  [][last'.op = "apply_records" =>
       LET records == last'.arg[1].val
           again == apply_records(pool'[1], records, TRUE)
       IN /\ again.res # Blocked
          /\ Mem(again.e) = Mem(pool'[1])
          /\ (Len(records) = 1 /\ records[1].k = "Delete" /\ Absent(pool[1], records[1]))
               => Mem(pool'[1]) = Mem(pool[1])]_vars

(***************************************************************************)
(* An engine opened with link_top_k > 0 under vector puts, deletes and     *)
(* rebuilds in the default namespace (SpecLink).                           *)
(***************************************************************************)
\* VectorParams.link_top_k of this engine
LinkTopK == 1

LinkParams == [VectorParams(0, 1) EXCEPT !.link_top_k = LinkTopK]

LinkIds == {U0, U1, U2}

LinkVectors == {<<0>>, <<1>>, <<3>>}

InitLink ==
  /\ pool = <<NewEngine(Base, LinkParams)>>
  /\ disk = [d \in Dirs |-> EmptyDir]
  /\ last = Call("open", Ok, 1, TRUE)
  /\ nops = 0
  /\ calls = <<>>
  /\ hist = InitHist("Vec")

NextLink ==
  \/ \E id \in LinkIds, vector \in LinkVectors : PutVectorNs(1, None, id, vector, NoneOpt)
  \/ \E id \in LinkIds : DeleteVector(1, id, TRUE)
  \/ RebuildVectors(1)

SpecLink == InitLink /\ [][NextLink]_vars

\* the records a step appended to the log
Appended(e, e2) ==
  LET before == replay(e.wal.buf).records
      after == replay(e2.wal.buf).records
  IN SubSeq(after, Len(before) + 1, Len(after))

\* the edges a step appended, in order
AppendedEdges(e, e2) ==
  LET g == SelectSeq(Appended(e, e2), LAMBDA rec : rec.family = "Graph")
  IN [i \in 1..Len(g) |-> g[i].payload[2]]

\* the ids other than `id` stored in namespace n
OthersLive(e, n, id) ==
  IF Has(e.vectors, n) THEN (DOMAIN e.vectors[n].inner) \ {id} ELSE {}

\* `edges` is id -> n, n -> id for each of k distinct nearest neighbours n of
\* `vector` among `others`, each pair with one weight
LinksNearest(edges, e, n, id, vector, others, k) ==
  /\ Len(edges) = 2 * k
  /\ \A j \in 1..k :
       /\ edges[2 * j - 1].src = id
       /\ edges[2 * j - 1].dst \in others
       /\ edges[2 * j] = Edge(edges[2 * j - 1].dst, id, edges[2 * j - 1].weight)
       /\ \A j2 \in 1..k : j2 # j => edges[2 * j2 - 1].dst # edges[2 * j - 1].dst
  /\ \A m \in others :
       (\A j \in 1..k : edges[2 * j - 1].dst # m) =>
          \A j \in 1..k :
            l2(vector, e.vectors[n].inner[m])
              >= l2(vector, e.vectors[n].inner[edges[2 * j - 1].dst])

\* the put of this step succeeds in a namespace that holds at least
\* link_top_k other live vectors
LinkCase ==
  /\ last'.op = "put_vector" /\ IsOk(last'.res)
  /\ Cardinality(OthersLive(pool[1], last'.arg[1].val.namespace, last'.arg[1].id))
       >= pool[1].link_top_k

\* C21: with link_top_k = k > 0, a successful put_vector of id into a
\* namespace that holds at least k other live vectors appends exactly 2*k
\* graph edges: id -> n and n -> id for each of k distinct nearest neighbours
\* n other than id, each pair with the same weight.
C21_PutLinksNearest ==
  [][LinkCase =>
       LinksNearest(AppendedEdges(pool[1], pool'[1]), pool[1],
                    last'.arg[1].val.namespace, last'.arg[1].id,
                    last'.arg[1].val.vector,
                    OthersLive(pool[1], last'.arg[1].val.namespace, last'.arg[1].id),
                    pool[1].link_top_k)]_vars

(***************************************************************************)
(* The pool behind the HTTP handlers (SpecReshard): every keyed call goes  *)
(* to shard_for(id) of the current pool; the flusher ticks and reshard runs *)
(* with no other request in flight.                                        *)
(***************************************************************************)
\* calls in one behaviour of the handler workloads
MaxReshardOps == 4

ReshardIds == {U0, U1}

HttpUp == Up /\ nops < MaxReshardOps

\* put_doc / put_row
HttpPut(fam, id, json) ==
  /\ HttpUp /\ hist.workload = fam
  /\ LET i == shard_for(pool, id)
         r == put_ns(pool[i], fam, None, None, id, json, TRUE)
     IN Commit(i, r, "put", TRUE, Arg(id, json),
               HistPut(hist, Item(fam, None, None, id), json, r.res))

\* delete_doc / delete_row
HttpDelete(fam, id) ==
  /\ HttpUp /\ hist.workload = fam
  /\ LET i == shard_for(pool, id)
         r == delete_ns(pool[i], fam, None, None, id, TRUE)
     IN Commit(i, r, "delete", TRUE, Arg(id, <<>>),
               HistDelete(hist, Item(fam, None, None, id), r.res))

\* put_vector
HttpPutVector(id, v) ==
  /\ HttpUp /\ hist.workload = "Vec"
  /\ LET i == shard_for(pool, id)
         r == put_vector_with_meta_ns(pool[i], None, id, v[1], v[2], TRUE)
     IN Commit(i, r, "put", TRUE, Arg(id, v),
               HistPut(hist, Item("Vec", None, None, id), v, r.res))

\* delete_vector
HttpDeleteVector(id) ==
  /\ HttpUp /\ hist.workload = "Vec"
  /\ LET i == shard_for(pool, id)
         r == delete_vector(pool[i], id, TRUE)
     IN Commit(i, r, "delete", TRUE, Arg(id, <<>>),
               HistDelete(hist, Item("Vec", None, None, id), r.res))

\* add_edge: routed by src
HttpAddEdge(src, dst, w) ==
  /\ HttpUp /\ hist.workload = "Graph"
  /\ LET i == shard_for(pool, src)
         r == add_edge(pool[i], src, dst, w, TRUE)
     IN Commit(i, r, "put", TRUE, Arg(src, Edge(src, dst, w)), HistOther(hist))

NextReshard ==
  \/ \E fam \in {"Doc", "Row"}, id \in ReshardIds, json \in Docs : HttpPut(fam, id, json)
  \/ \E fam \in {"Doc", "Row"}, id \in ReshardIds : HttpDelete(fam, id)
  \/ \E id \in ReshardIds, v \in VecInputs : HttpPutVector(id, v)
  \/ \E id \in ReshardIds : HttpDeleteVector(id)
  \/ \E src \in ReshardIds, w \in Weights : HttpAddEdge(src, U0, w)
  \/ \E n \in 1..MaxShards : HttpUp /\ reshard_call(n)
  \/ HttpUp /\ flusher_tick

SpecReshard == InitPool /\ [][NextReshard]_vars

\* what get_doc, get_row, get_vector and list_neighbors answer for id
PoolGet(shards, fam, id) ==
  LET e == shards[shard_for(shards, id)]
  IN CASE fam \in {"Doc", "Row"} -> get_ns(e, fam, None, None, id)
       [] fam = "Vec" -> get_vector(e, id)
       [] OTHER -> neighbors(e, id, NeighborLimit)

Readable(answer) == answer # <<>>

\* C22: after a reshard to S' shards completes, for any old and new shard
\* count, every doc, row, vector with metadata and graph edge readable through
\* the pool before it is readable through the new pool with the same value,
\* and nothing that had been deleted is readable again.
C22_ReshardKeepsData ==
  [][(last'.op = "reshard" /\ IsOk(last'.res)) =>
       \A fam \in {"Doc", "Row", "Vec", "Graph"}, id \in ReshardIds :
         /\ Readable(PoolGet(pool, fam, id)) =>
              PoolGet(pool', fam, id) = PoolGet(pool, fam, id)
         /\ Item(fam, None, None, id) \in hist.gone =>
              ~ Readable(PoolGet(pool', fam, id))]_vars

(***************************************************************************)
(* Reshard running beside other requests (SpecSwap).  The handler holds    *)
(* pool.read() while it reads the logs, no lock while it builds and fills  *)
(* the new pool, and pool.write() for the swap; every other handler and    *)
(* the flusher hold pool.read() for one call.  The reshard in flight is    *)
(* calls[1]: its position pc, the records read, the new pool, and the      *)
(* writes acknowledged since it started.                                   *)
(***************************************************************************)
ReshardCall(n, wal) ==
  [op |-> "reshard", pc |-> "new", shards |-> n, wal |-> wal, new_pool |-> <<>>,
   acked |-> {}]

\* a write acknowledged while a reshard is in flight is noted in it
Ack(cs, res, fam, id, answer) ==
  IF cs = <<>> \/ ~ IsOk(res) THEN cs
  ELSE [cs EXCEPT ![1].acked =
          {w \in @ : ~ (w.fam = fam /\ w.id = id)}
            \cup {[fam |-> fam, id |-> id, answer |-> answer]}]

Written(i, r, op, fam, id, arg, answer) ==
  /\ pool' = [pool EXCEPT ![i] = r.e]
  /\ last' = [Call(op, r.res, i, TRUE) EXCEPT !.arg = arg]
  /\ nops' = nops + 1
  /\ calls' = Ack(calls, r.res, fam, id, answer)
  /\ hist' = HistOther(hist)
  /\ UNCHANGED disk

\* put_doc / put_row
SwapPut(fam, id, json) ==
  /\ HttpUp /\ hist.workload = fam
  /\ LET i == shard_for(pool, id)
     IN Written(i, put_ns(pool[i], fam, None, None, id, json, TRUE), "put", fam, id,
                Arg(id, json), Some(json))

\* delete_doc / delete_row
SwapDelete(fam, id) ==
  /\ HttpUp /\ hist.workload = fam
  /\ LET i == shard_for(pool, id)
     IN Written(i, delete_ns(pool[i], fam, None, None, id, TRUE), "delete", fam, id,
                Arg(id, <<>>), NoneOpt)

\* put_vector
SwapPutVector(id, v) ==
  /\ HttpUp /\ hist.workload = "Vec"
  /\ LET i == shard_for(pool, id)
     IN Written(i, put_vector_with_meta_ns(pool[i], None, id, v[1], v[2], TRUE), "put",
                "Vec", id, Arg(id, v), Some(v))

SwapFlusher ==
  /\ HttpUp
  /\ pool' = flush_each(pool, disk, 1).shards
  /\ disk' = flush_each(pool, disk, 1).disk
  /\ last' = Call("flush_wal", Ok, 0, TRUE)
  /\ nops' = nops + 1
  /\ UNCHANGED <<calls, hist>>

\* reshard, to the end of the block that holds pool.read()
ReshardDump(n) ==
  /\ HttpUp /\ calls = <<>>
  /\ calls' = <<ReshardCall(n, wal_all(pool, disk))>>
  /\ last' = Call("reshard_dump", Ok, 0, TRUE)
  /\ nops' = nops + 1
  /\ UNCHANGED <<pool, disk, hist>>

Returned(res) ==
  /\ calls' = <<>>
  /\ last' = Call("reshard", res, 0, TRUE)
  /\ UNCHANGED <<nops, hist>>

\* DbPool::new
ReshardNew ==
  /\ calls # <<>> /\ calls[1].pc = "new"
  /\ \E orders \in Orders(disk) :
     \E new_pool \in {DbPool_new(disk, calls[1].shards, orders)} :
       IF new_pool.ok
       THEN /\ calls' = <<[calls[1] EXCEPT !.pc = "apply", !.new_pool = new_pool.shards]>>
            /\ UNCHANGED <<pool, disk, last, nops, hist>>
       ELSE /\ Returned(Err("Internal"))
            /\ disk' = new_pool.disk
            /\ UNCHANGED pool

\* the copy loop
ReshardApply ==
  /\ calls # <<>> /\ calls[1].pc = "apply"
  /\ \E copied \in {copy_records(calls[1].new_pool, calls[1].wal)} :
       /\ copied.res # Blocked
       /\ IF IsOk(copied.res)
          THEN /\ calls' = <<[calls[1] EXCEPT !.pc = "swap", !.new_pool = copied.shards]>>
               /\ UNCHANGED <<pool, disk, last, nops, hist>>
          ELSE /\ Returned(copied.res)
               /\ disk' = DropAll(copied.shards, disk)
               /\ UNCHANGED pool

\* the block that holds pool.write(): the old pool is replaced and dropped
ReshardSwap ==
  /\ calls # <<>> /\ calls[1].pc = "swap"
  /\ pool' = calls[1].new_pool
  /\ disk' = DropAll(pool, disk)
  /\ Returned(Ok)

NextSwap ==
  \/ \E fam \in {"Doc", "Row"}, id \in ReshardIds, json \in Docs : SwapPut(fam, id, json)
  \/ \E fam \in {"Doc", "Row"}, id \in ReshardIds : SwapDelete(fam, id)
  \/ \E id \in ReshardIds, v \in VecInputs : SwapPutVector(id, v)
  \/ SwapFlusher
  \/ \E n \in 1..MaxShards : ReshardDump(n)
  \/ ReshardNew
  \/ ReshardApply
  \/ ReshardSwap

InitSwap ==
  /\ InitPool
  /\ hist.workload \in {"Doc", "Row", "Vec"}

SpecSwap == InitSwap /\ [][NextSwap]_vars

\* C23: writers are excluded for the whole of a reshard: a write that returns
\* success while a reshard is in progress is present in the pool after the
\* reshard completes, so no acknowledged write is lost.
C23_AckedWriteSurvivesReshard ==
  [][(last'.op = "reshard" /\ IsOk(last'.res)) =>
       \A w \in calls[1].acked : PoolGet(pool', w.fam, w.id) = w.answer]_vars

(***************************************************************************)
(* The /v1/sql endpoint of the pool (SpecSql).                             *)
(***************************************************************************)
\* query_sql, Insert arm: the statement is run on shards[0]
pool_sql_insert(shards, stmt, fresh) ==
  LET r == exec_insert(shards[1], stmt, fresh, TRUE)
  IN [shards |-> [shards EXCEPT ![1] = r.e], res |-> r.res, ids |-> r.ids]

\* query_sql, Update arm: the statement is run on every shard in turn and the
\* first error ends the request
RECURSIVE pool_sql_update(_, _, _)
pool_sql_update(shards, i, stmt) ==
  IF i > Len(shards) THEN [shards |-> shards, res |-> Ok]
  ELSE LET r == exec_update(shards[i], stmt, TRUE)
       IN IF IsOk(r.res) THEN pool_sql_update([shards EXCEPT ![i] = r.e], i + 1, stmt)
          ELSE [shards |-> [shards EXCEPT ![i] = r.e], res |-> r.res]

\* the id exec_insert gives the new row
InsertedId(stmt, fresh) ==
  LET parsed == InsertId(InsertObject(stmt.columns, stmt.values))
  IN IF parsed # NoneOpt THEN parsed[1] ELSE fresh

PoolSqlInsert(fam, stmt, fresh) ==
  /\ HttpUp /\ hist.workload = fam
  /\ LET r == pool_sql_insert(pool, stmt, fresh)
     IN /\ pool' = r.shards
        /\ last' = [Call("sql_insert", r.res, 1, TRUE) EXCEPT
                      !.arg = Arg(InsertedId(stmt, fresh), fam)]
  /\ nops' = nops + 1
  /\ hist' = HistOther(hist)
  /\ UNCHANGED <<calls, disk>>

PoolSqlUpdate(fam, stmt) ==
  /\ HttpUp /\ hist.workload = fam
  /\ LET r == pool_sql_update(pool, 1, stmt)
     IN /\ pool' = r.shards
        /\ last' = Call("sql_update", r.res, 0, TRUE)
  /\ nops' = nops + 1
  /\ hist' = HistOther(hist)
  /\ UNCHANGED <<calls, disk>>

InitSql ==
  /\ InitPool
  /\ hist.workload \in {"Doc", "Row"}

NextSql ==
  \/ \E fam \in {"Doc", "Row"}, lit \in Literals, fresh \in PoolIds :
       PoolSqlInsert(fam, InsertStmt(fam, lit), fresh)
  \/ \E fam \in {"Doc", "Row"}, lit \in Literals, id \in PoolIds :
       PoolSqlInsert(fam, InsertWithIdStmt(fam, id, lit), U2)
  \/ \E fam \in {"Doc", "Row"}, lit \in Literals, selection \in Selections :
       PoolSqlUpdate(fam, UpdateStmt(fam, lit, selection))
  \/ \E fam \in {"Doc", "Row"}, id \in PoolIds : HttpDelete(fam, id)

SpecSql == InitSql /\ [][NextSql]_vars

\* the shards (from 1) that store id in the default collection of the family
StoredOn(shards, fam, id) ==
  {i \in 1..Len(shards) : Has(shards[i][DocsField(fam)], <<default_ns, default_ns, id>>)}

\* C24: in a pool of more than one shard, an INSERT submitted to /v1/sql is
\* run on the shard that owns the generated or parsed id: it succeeds for
\* every id, and afterwards the new row is stored on exactly one shard, its
\* owner.
C24_InsertOnOwner ==
  [][(last'.op = "sql_insert" /\ Len(pool) > 1) =>
       /\ IsOk(last'.res)
       /\ StoredOn(pool', last'.arg[1].val, last'.arg[1].id)
            = {shard_for(pool', last'.arg[1].id)}]_vars

(***************************************************************************)
(* SELECT.  A statement is its parsed form: the table name, the WHERE      *)
(* conditions, the ORDER BY keys <<field, asc>>, LIMIT and OFFSET when      *)
(* given, and the projections [source, alias] (none for a wildcard).  Joins *)
(* and aggregates are not part of these statements.                        *)
(***************************************************************************)
\* the LIMIT of a statement that has none (100 in parse_select), scaled to
\* the collections of this model
DefaultLimit == 2

\* the comparator of rows.sort_by
RECURSIVE row_cmp(_, _, _)
row_cmp(a, b, order_by) ==
  IF order_by = <<>> THEN 0
  ELSE LET field == Head(order_by)[1]
           asc == Head(order_by)[2]
           ord == CASE Has(a, field) /\ Has(b, field) ->
                         (IF cmp_values(a[field], b[field]) = NoneOpt THEN 0
                          ELSE cmp_values(a[field], b[field])[1])
                    [] Has(a, field) -> 1
                    [] Has(b, field) -> -1
                    [] OTHER -> 0
       IN IF ord # 0 THEN (IF asc THEN ord ELSE 0 - ord)
          ELSE row_cmp(a, b, Tail(order_by))

\* rows.sort_by: a stable sort
RECURSIVE sort_rows(_, _)
sort_rows(rows, order_by) ==
  IF rows = <<>> THEN <<>>
  ELSE LET rest == sort_rows(Tail(rows), order_by)
           n == Cardinality({i \in 1..Len(rest) :
                               row_cmp(rest[i].val, Head(rows).val, order_by) < 0})
       IN SubSeq(rest, 1, n) \o <<Head(rows)>> \o SubSeq(rest, n + 1, Len(rest))

\* a slice that cuts LIMIT rows first and skips OFFSET of them afterwards
slice_rows_limit_first(rows, offset, limit) ==
  LET end == IF limit < Len(rows) THEN limit ELSE Len(rows)
  IN SubSeq(rows, (IF offset < end THEN offset ELSE end) + 1, end)

\* &rows[start..end]
slice_rows(rows, offset, limit) ==
  LET start == IF offset < Len(rows) THEN offset ELSE Len(rows)
      end == IF start + limit < Len(rows) THEN start + limit ELSE Len(rows)
  IN SubSeq(rows, start + 1, end)

\* the projection loop over one row: a later projection overwrites an
\* earlier one with the same alias
RECURSIVE project(_, _, _)
project(id, val, projs) ==
  IF projs = <<>> THEN EmptyMap
  ELSE LET p == projs[Len(projs)]
           obj == project(id, val, SubSeq(projs, 1, Len(projs) - 1))
       IN IF p.source = "_id" THEN MapPut(obj, p.alias, <<"str", UuidText(id)>>)
          ELSE IF Has(val, p.source) THEN MapPut(obj, p.alias, val[p.source])
          ELSE obj

Row(id, val) == [id |-> id, val |-> val]

exec_select(e, stmt) ==
  LET name == split_name(stmt.table)
      w == walk_expr(stmt.selection)
  IN IF ~ name.ok \/ ~ w.ok THEN [res |-> Err("Internal"), rows |-> <<>>]
     ELSE LET fam == IF target_is_rows(name.family, name.coll) THEN "Row" ELSE "Doc"
              ids == filter_conditions(e, fam, name.ns, name.coll, w.conds)
              rows == [i \in 1..Len(ids) |->
                         Row(ids[i], e[DocsField(fam)][<<name.ns, name.coll, ids[i]>>])]
              sorted == IF stmt.order_by # <<>> THEN sort_rows(rows, stmt.order_by) ELSE rows
              slice == slice_rows(sorted, IF stmt.offset = NoneOpt THEN 0 ELSE stmt.offset[1],
                                  IF stmt.limit = NoneOpt THEN DefaultLimit ELSE stmt.limit[1])
          IN [res |-> Ok,
              rows |-> IF stmt.projections = NoneOpt THEN slice
                       ELSE [i \in 1..Len(slice) |->
                               Row(slice[i].id,
                                   project(slice[i].id, slice[i].val, stmt.projections[1]))]]

(***************************************************************************)
(* SELECT over the collections three ids can form (SpecSelect).            *)
(***************************************************************************)
\* SELECT statements in one behaviour
MaxSelects == 1

SelectIds == {U0, U1, U2}

F1 == <<"flt", "1.0">>

F2 == <<"flt", "2.0">>

S1 == <<"str", "1">>

S2 == <<"str", "2">>

SelectDocs == {[f |-> F1, g |-> S1], [f |-> F1, g |-> S2], [f |-> F2, g |-> S1], Obj("f", F2)}

Selects ==
  {[table |-> TableOf("Doc"), selection |-> selection, order_by |-> order_by,
    limit |-> limit, offset |-> offset, projections |-> projections] :
     selection \in {<<>>,
                    <<[field |-> "f", op |-> "Gt", value |-> <<"num", "1">>]>>,
                    <<[field |-> "f", op |-> "Eq", value |-> <<"num", "1">>],
                      [field |-> "g", op |-> "Ne", value |-> <<"str", "1">>]>>},
     order_by \in {<<>>, <<<<"f", FALSE>>, <<"g", TRUE>>>>, <<<<"g", FALSE>>, <<"f", TRUE>>>>},
     limit \in {NoneOpt, Some(1)},
     offset \in {NoneOpt, Some(1)},
     projections \in {NoneOpt,
                      Some(<<[source |-> "g", alias |-> "h"],
                             [source |-> "_id", alias |-> "id"],
                             [source |-> "f", alias |-> "f"]>>)}}

\* the engine after put_doc of m[id] for every id of `ids`
RECURSIVE PutAll(_, _, _)
PutAll(e, m, ids) ==
  IF ids = <<>> THEN e
  ELSE PutAll(put_ns(e, "Doc", None, None, Head(ids), m[Head(ids)], TRUE).e, m, Tail(ids))

InitSelect ==
  /\ \E present \in SUBSET SelectIds, m \in [SelectIds -> SelectDocs] :
       pool = <<PutAll(NewEngine(Base, VectorParams(0, 1)), m, SetToSeq(present))>>
  /\ disk = [d \in Dirs |-> EmptyDir]
  /\ last = Call("open", Ok, 1, TRUE)
  /\ nops = 0
  /\ calls = <<>>
  /\ hist = InitHist("Doc")

Select(stmt) ==
  /\ Up /\ nops < MaxSelects
  /\ LET r == exec_select(pool[1], stmt)
     IN last' = [Call("sql_select", r.res, 1, TRUE) EXCEPT
                   !.arg = Arg(NoUuid, [stmt |-> stmt, rows |-> r.rows])]
  /\ nops' = nops + 1
  /\ UNCHANGED <<pool, disk, calls, hist>>

NextSelect == \E stmt \in Selects : Select(stmt)

SpecSelect == InitSelect /\ [][NextSelect]_vars

\* the documents of the default collection
Stored(e) ==
  [id \in {k[3] : k \in {k \in DOMAIN e.docs : k[1] = default_ns /\ k[2] = default_ns}} |->
     e.docs[<<default_ns, default_ns, id>>]]

\* the ids whose document passes every WHERE condition
Matching(docs, selection) ==
  {id \in DOMAIN docs :
     \A i \in 1..Len(selection) :
       Pass(docs[id], [field |-> selection[i].field, op |-> selection[i].op,
                       value |-> literal_to_value(selection[i].value)[1]])}

\* document a must come after document b: at the first key on which they
\* differ, a is greater under ASC or less under DESC
MustFollow(a, b, order_by) ==
  \E m \in 1..Len(order_by) :
    /\ \A p \in 1..m : Has(a, order_by[p][1]) /\ Has(b, order_by[p][1])
    /\ \A p \in 1..(m - 1) : cmp_values(a[order_by[p][1]], b[order_by[p][1]]) = Some(0)
    /\ cmp_values(a[order_by[m][1]], b[order_by[m][1]])
         = Some(IF order_by[m][2] THEN 1 ELSE -1)

\* s lists ids in an order the ORDER BY keys allow
InOrder(s, docs, order_by) ==
  \A i \in 1..Len(s), j \in 1..Len(s) :
    i < j => ~ MustFollow(docs[s[i]], docs[s[j]], order_by)

\* the listed fields that exist in the document, under their aliases
Projected(id, doc, projs) ==
  [alias \in {projs[i].alias : i \in {i \in 1..Len(projs) :
                                       projs[i].source = "_id" \/ Has(doc, projs[i].source)}} |->
     LET p == projs[CHOOSE i \in 1..Len(projs) : projs[i].alias = alias]
     IN IF p.source = "_id" THEN <<"str", UuidText(id)>> ELSE doc[p.source]]

\* rows is WHERE, then ORDER BY, then OFFSET, then LIMIT, then projection
SelectResult(rows, docs, stmt) ==
  LET offset == IF stmt.offset = NoneOpt THEN 0 ELSE stmt.offset[1]
      limit == IF stmt.limit = NoneOpt THEN DefaultLimit ELSE stmt.limit[1]
  IN /\ \E s \in Perms(Matching(docs, stmt.selection)) :
          /\ InOrder(s, docs, stmt.order_by)
          /\ [i \in 1..Len(rows) |-> rows[i].id] = SubSeq(SubSeq(s, offset + 1, Len(s)), 1,
                IF limit < Len(s) - offset THEN limit ELSE Len(s) - offset)
     /\ \A i \in 1..Len(rows) :
          rows[i].val = IF stmt.projections = NoneOpt THEN docs[rows[i].id]
                        ELSE Projected(rows[i].id, docs[rows[i].id], stmt.projections[1])

\* C25: a SELECT applies the conjunction of the WHERE conditions, then ORDER
\* BY over its keys (ASC or DESC, later keys breaking ties), then OFFSET, then
\* LIMIT (the default when absent), then projection; a projected row holds
\* exactly the listed fields that exist in the source row, under their aliases,
\* with _id yielding the row's UUID, and no other field.
C25_SelectStages ==
  last.op = "sql_select" =>
    /\ IsOk(last.res)
    /\ SelectResult(last.arg[1].val.rows, Stored(pool[1]), last.arg[1].val.stmt)

\* a SELECT with two ORDER BY keys, an OFFSET and an alias answered one row
\* out of three that pass, the first one skipped
C25_Witness ==
  /\ last.op = "sql_select"
  /\ Len(last.arg[1].val.stmt.order_by) = 2
  /\ last.arg[1].val.stmt.offset = Some(1)
  /\ last.arg[1].val.stmt.limit = NoneOpt
  /\ last.arg[1].val.stmt.projections # NoneOpt
  /\ Cardinality(Matching(Stored(pool[1]), last.arg[1].val.stmt.selection)) = 3
  /\ Len(last.arg[1].val.rows) = 2
  /\ \E i \in 1..2 : Has(last.arg[1].val.rows[i].val, "id")

(***************************************************************************)
(* Group commit (SpecCommit, SpecCommitFair).  hist.acked holds the        *)
(* records whose append returned success, each with the directory of the   *)
(* log it went to; hist.durable holds, per directory, the content of       *)
(* wal.log at its last sync_all.                                           *)
(***************************************************************************)
\* writes and reshards in one behaviour
MaxCommitOps == 3

InitCommitHist ==
  [workload |-> "Doc", put |-> <<>>, acked |-> {}, durable |-> [d \in Dirs |-> <<>>]]

\* put_doc through the pool
CommitPut(id) ==
  /\ Up /\ nops < MaxCommitOps
  /\ LET i == shard_for(pool, id)
         r == put_ns(pool[i], "Doc", None, None, id, PoolDoc, TRUE)
     IN Commit(i, r, "put", TRUE, Arg(id, PoolDoc),
               IF IsOk(r.res)
               THEN [hist EXCEPT !.acked = @ \cup {[dir |-> pool[i].path,
                                                    rec |-> Appended(pool[i], r.e)[1]]}]
               ELSE hist)

\* reshard with no request in flight; dropping the old pool writes its
\* buffers out without a sync
CommitReshard(n) == Up /\ nops < MaxCommitOps /\ reshard_call(n)

\* one tick of the flusher: flush_sync on every shard of the current pool
CommitFlusher ==
  /\ Up
  /\ pool' = flush_each(pool, disk, 1).shards
  /\ disk' = flush_each(pool, disk, 1).disk
  /\ hist' = [hist EXCEPT !.durable =
                [d \in Dirs |-> IF \E i \in 1..Len(pool) : pool[i].path = d
                                THEN disk'[d].wal ELSE @[d]]]
  /\ last' = Call("flush_wal", Ok, 0, TRUE)
  /\ UNCHANGED <<nops, calls>>

InitCommit ==
  /\ disk = [d \in Dirs |-> EmptyDir]
  /\ \E n \in 1..MaxShards :
       pool = DbPool_new(disk, n, [d \in Dirs |-> <<>>]).shards
  /\ last = Call("open", Ok, 0, TRUE)
  /\ nops = 0
  /\ calls = <<>>
  /\ hist = InitCommitHist

NextCommit ==
  \/ \E id \in ReshardIds : CommitPut(id)
  \/ \E n \in 1..MaxShards : CommitReshard(n)
  \/ CommitFlusher

SpecCommit == InitCommit /\ [][NextCommit]_vars

\* the flusher task loops on its interval for as long as the server runs
SpecCommitFair == SpecCommit /\ WF_vars(CommitFlusher)

\* the records a put_doc of this workload appends, per directory
CommitItems ==
  {[dir |-> d, rec |-> PutRec("Doc", id, to_vec(PoolDoc), default_ns, default_ns, None)] :
     d \in Dirs, id \in ReshardIds}

Durable(x) ==
  \E i \in 1..Len(replay(hist.durable[x.dir]).records) :
    replay(hist.durable[x.dir]).records[i] = x.rec

\* C26: every record whose append returned success is eventually written to
\* wal.log and fsynced, provided the group-commit task keeps ticking; this
\* includes records appended shortly before a reshard replaces the pool.
C26_AckedEventuallyDurable ==
  \A x \in CommitItems : (x \in hist.acked) ~> Durable(x)

(***************************************************************************)
(* put_doc_ns / put_row_ns running on several threads (SpecDocRace).  A    *)
(* put in flight is a record with its arguments and its position pc: the   *)
(* ownership and schema check under data.read(), the append under          *)
(* wal.write(), the insert under data.write().                             *)
(***************************************************************************)
DocCall(fam, id, json) == [op |-> "put", fam |-> fam, id |-> id, json |-> json, pc |-> "check"]

\* one step of a put in flight: [e, call, res]; res is NoneOpt until it returns
doc_put_step(e, c) ==
  LET go(e1, pc) == [e |-> e1, call |-> [c EXCEPT !.pc = pc], res |-> NoneOpt]
  IN CASE c.pc = "check" ->
            IF ~ owns(e, c.id) THEN [e |-> e, call |-> c, res |-> Some(Err("WrongShard"))]
            ELSE IF ~ IsOk(enforce_schema(e, c.fam, None, None, c.id, c.json))
            THEN [e |-> e, call |-> c,
                  res |-> Some(enforce_schema(e, c.fam, None, None, c.id, c.json))]
            ELSE go(e, "append")
       [] c.pc = "append" ->
            go(append_record(e, PutRec(c.fam, c.id, to_vec(c.json), default_ns,
                                       IF c.fam = "Doc" THEN default_ns ELSE None,
                                       IF c.fam = "Row" THEN default_ns ELSE None)),
               "insert")
       [] OTHER ->
            [e |-> [e EXCEPT
                      ![DocsField(c.fam)] = MapPut(@, <<default_ns, default_ns, c.id>>, c.json),
                      ![ColsField(c.fam)] = @ \cup {<<default_ns, default_ns>>},
                      ![IndexField(c.fam)] = index_upsert(@, default_ns, default_ns, c.id, c.json),
                      !.stats = bump_stats(@, c.fam, default_ns, default_ns, 1)],
             call |-> c, res |-> Some(Ok)]

DocRaceIds == {U0, U1}

\* a thread enters put_doc_ns or put_row_ns
DocStart(c) ==
  /\ Up /\ RaceBudget /\ Len(calls) < MaxCalls /\ hist.workload = c.fam
  /\ calls' = Append(calls, c)
  /\ nops' = nops + 1
  /\ UNCHANGED <<pool, disk, last, hist>>

\* the thread of call t runs its next critical section
DocStep(t) ==
  /\ Up /\ t \in 1..Len(calls)
  /\ \E r \in {doc_put_step(pool[1], calls[t])} :
       /\ pool' = [pool EXCEPT ![1] = r.e]
       /\ hist' = UqData(hist, r.e, calls[t].fam)
       /\ IF r.res = NoneOpt
          THEN /\ calls' = [calls EXCEPT ![t] = r.call]
               /\ UNCHANGED last
          ELSE /\ calls' = SubSeq(calls, 1, t - 1) \o SubSeq(calls, t + 1, Len(calls))
               /\ last' = [Call("put", r.res[1], 1, TRUE) EXCEPT
                             !.arg = Arg(r.call.id, r.call.json)]
  /\ UNCHANGED <<disk, nops>>

\* set_doc_schema / set_row_schema, while no put is in flight
DocSetSchema(fam) == calls = <<>> /\ RaceBudget /\ SetSchema(1, fam, <<None, None>>, UniqueF, TRUE)

InitDocRace ==
  /\ InitEngine
  /\ hist.workload \in {"Doc", "Row"}

NextDocRace ==
  \/ \E fam \in {"Doc", "Row"}, id \in DocRaceIds, json \in Docs : DocStart(DocCall(fam, id, json))
  \/ \E t \in 1..MaxCalls : DocStep(t)
  \/ \E fam \in {"Doc", "Row"} : DocSetSchema(fam)

SpecDocRace == InitDocRace /\ [][NextDocRace]_vars

\* the payload of the last Put record of (fam, id) in the log, if any
LastPut(records, fam, id) ==
  LET at == {i \in 1..Len(records) :
               records[i].k = "Put" /\ records[i].family = fam /\ records[i].key = id}
  IN IF at = {} THEN NoneOpt
     ELSE Some(records[CHOOSE i \in at : \A j \in at : j <= i].payload)

\* C27: when two writers concurrently put different values for the same id,
\* the value left in memory after both return is the value carried by the
\* later of their two WAL records, so replaying the WAL yields the value the
\* memory held.
C27_MemoryIsLastRecord ==
  (Up /\ calls = <<>>) =>
    \A fam \in {"Doc", "Row"}, id \in DocRaceIds :
      Has(pool[1][DocsField(fam)], <<default_ns, default_ns, id>>) =>
        LastPut(replay(pool[1].wal.buf).records, fam, id)
          = Some(to_vec(pool[1][DocsField(fam)][<<default_ns, default_ns, id>>]))

\* C28: with a unique field f in force, two concurrent puts with different
\* ids and the same scalar value for f never both succeed: at most one of the
\* two documents is stored.
C28_UniqueUnderRace ==
  (Up /\ hist.uq = "unique") =>
    \A fam \in {"Doc", "Row"} :
      \A id1 \in DocRaceIds, id2 \in DocRaceIds :
        (/\ id1 # id2
         /\ Has(pool[1][DocsField(fam)], <<default_ns, default_ns, id1>>)
         /\ Has(pool[1][DocsField(fam)], <<default_ns, default_ns, id2>>)) =>
          index_key(pool[1][DocsField(fam)][<<default_ns, default_ns, id1>>]["f"])
            # index_key(pool[1][DocsField(fam)][<<default_ns, default_ns, id2>>]["f"])

(***************************************************************************)
(* apply_records as a call that may not return (SpecHang).  The caller's   *)
(* thread enters the call and runs it; a call whose Delete arm asks for    *)
(* the write guard on vector_ns under its own read guard stays parked.     *)
(***************************************************************************)
HangIds == {U0, U1}

\* batches of Delete{Vec, key} records
DeleteBatches ==
  {<<DeleteRec("Vec", id, default_ns, None, None)>> : id \in HangIds}
    \cup {<<DeleteRec("Vec", id, default_ns, None, None),
            DeleteRec("Vec", id2, default_ns, None, None)>> : id \in HangIds, id2 \in HangIds}

ApplyCall(records) == [op |-> "apply_records", records |-> records, pc |-> "run"]

\* the thread enters apply_records
ApplyEnter(records) ==
  /\ Up /\ nops < MaxOps /\ calls = <<>>
  /\ calls' = <<ApplyCall(records)>>
  /\ nops' = nops + 1
  /\ UNCHANGED <<pool, disk, last, hist>>

\* the thread runs the batch: it returns, or parks on vector_ns.write()
ApplyRun ==
  /\ Up /\ calls # <<>> /\ calls[1].pc = "run"
  /\ \E r \in {apply_records(pool[1], calls[1].records, TRUE)} :
       /\ pool' = [pool EXCEPT ![1] = r.e]
       /\ IF r.res = Blocked
          THEN /\ calls' = <<[calls[1] EXCEPT !.pc = "parked"]>>
               /\ UNCHANGED last
          ELSE /\ calls' = <<>>
               /\ last' = [Call("apply_records", r.res, 1, TRUE) EXCEPT
                             !.arg = Arg(NoUuid, calls[1].records)]
  /\ hist' = HistOther(hist)
  /\ UNCHANGED <<disk, nops>>

NextHang ==
  \/ \E id \in HangIds, v \in VecInputs : calls = <<>> /\ PutVector(1, None, id, v, TRUE)
  \/ \E id \in HangIds : calls = <<>> /\ DeleteVector(1, id, TRUE)
  \/ \E records \in DeleteBatches : ApplyEnter(records)
  \/ ApplyRun

SpecHang == InitVector /\ [][NextHang]_vars

\* the thread that entered apply_records keeps running
SpecHangFair == SpecHang /\ WF_vars(ApplyRun)

\* apply_records has been entered with a batch that deletes an existing vector
Entered(records) ==
  /\ calls = <<ApplyCall(records)>>
  /\ \E i \in 1..Len(records) : Has(pool[1].vector_ns, records[i].key)

\* apply_records has returned and the keys of the batch are gone
Returned_Deleted(records) ==
  /\ calls = <<>>
  /\ last.op = "apply_records"
  /\ \A i \in 1..Len(records) :
       /\ get_vector(pool[1], records[i].key) = NoneOpt
       /\ ~ Has(pool[1].vector_ns, records[i].key)

\* C30: apply_records on a batch with Delete{family = Vec, key} for a vector
\* that exists on the applying engine terminates, and then get_vector(key)
\* is None and key is no longer in the id -> namespace map.
C30_ApplyDeleteTerminates ==
  \A records \in DeleteBatches : Entered(records) ~> Returned_Deleted(records)

(***************************************************************************)
(* The locks of one engine (SpecLocks).  Every operation is the sequence   *)
(* of guards it takes and drops, in the order of its source text, on the   *)
(* path where the index and its HNSW graph exist and no threshold rebuild  *)
(* is due.  A thread in flight is [op, pc, held].  hist.present says       *)
(* whether the key is in vector_ns, the one fact a program branches on.    *)
(***************************************************************************)
MaxLockOps == 3

Locks == {"wal", "data", "stats", "vectors", "vector_ns", "dim", "inner", "meta",
          "tombstones", "id_map", "rev_map", "owned_store", "hnsw"}

Acq(l, m) == <<"acq", l, m>>
Rel(l, m) == <<"rel", l, m>>

\* a guard that is a temporary of one statement
Take(l, m) == <<Acq(l, m), Rel(l, m)>>

\* VectorIndex::insert
insert_locks ==
  Take("dim", "w") \o Take("inner", "w") \o Take("meta", "w") \o Take("tombstones", "w")
    \o <<Acq("id_map", "w"), Acq("rev_map", "w"), Rel("rev_map", "w"), Rel("id_map", "w")>>
    \o Take("owned_store", "w") \o Take("hnsw", "w")

\* VectorIndex::delete, with maybe_rebuild below its threshold
delete_locks == Take("inner", "w") \o Take("tombstones", "w") \o Take("tombstones", "r")

\* VectorIndex::rebuild_hnsw
rebuild_hnsw_locks ==
  Take("dim", "r")
    \o <<Acq("inner", "r"), Acq("tombstones", "r"),
         Acq("id_map", "w"), Acq("rev_map", "w"), Rel("rev_map", "w"), Rel("id_map", "w"),
         Rel("tombstones", "r"), Rel("inner", "r")>>
    \o Take("owned_store", "w") \o Take("hnsw", "w")

\* VectorIndex::search_ann_filtered on an index with a graph
search_ann_locks ==
  <<Acq("hnsw", "r")>> \o Take("rev_map", "r") \o Take("tombstones", "r") \o Take("meta", "r")
    \o <<Rel("hnsw", "r")>>

\* VectorIndex::save_snapshot, then save_hnsw
save_snapshot_locks ==
  <<Acq("inner", "r"), Acq("meta", "r"), Rel("meta", "r"), Rel("inner", "r")>>
    \o Take("hnsw", "r")

\* PieskieoDb::rebuild_vectors
rebuild_vectors_locks == <<Acq("vectors", "r")>> \o rebuild_hnsw_locks \o <<Rel("vectors", "r")>>

\* PieskieoDb::save_vector_snapshot
save_vector_snapshot_locks ==
  <<Acq("vectors", "r")>> \o save_snapshot_locks \o <<Rel("vectors", "r")>>

\* the guards of each operation
LockProgram(op) ==
  CASE op = "put_doc" ->
         Take("data", "r") \o Take("wal", "w")
           \o <<Acq("data", "w"), Acq("stats", "w"), Rel("stats", "w"), Rel("data", "w")>>
    [] op = "delete_doc" ->
         Take("wal", "w")
           \o <<Acq("data", "w"), Acq("stats", "w"), Rel("stats", "w"), Rel("data", "w")>>
    [] op = "put_vector" ->
         Take("wal", "w") \o Take("vectors", "w") \o insert_locks
           \o <<Acq("vector_ns", "w"), <<"set", TRUE>>, Rel("vector_ns", "w")>>
    [] op = "delete_vector" ->
         Take("vector_ns", "r") \o Take("wal", "w")
           \o <<Acq("vectors", "r")>> \o delete_locks \o <<Rel("vectors", "r")>>
           \o <<Acq("vector_ns", "w"), <<"set", FALSE>>, Rel("vector_ns", "w")>>
    [] op = "search_vector" -> Take("vectors", "w") \o search_ann_locks
    [] op = "rebuild_vectors" -> rebuild_vectors_locks
    [] op = "save_vector_snapshot" -> save_vector_snapshot_locks
    [] op = "vacuum" ->
         <<Acq("vectors", "r")>> \o Take("tombstones", "r") \o Take("inner", "w")
           \o Take("tombstones", "w") \o <<Rel("vectors", "r")>>
           \o rebuild_vectors_locks \o save_vector_snapshot_locks \o Take("wal", "w")
    [] op = "flush_wal" -> Take("wal", "w")
    [] op = "apply_put_doc" -> Take("wal", "w") \o Take("data", "w")
    [] OTHER ->
         \* apply_records([Delete{Vec, key}]): the read guard of the `if let`
         \* lives to the end of its block
         Take("wal", "w")
           \o <<Acq("vector_ns", "r"), <<"absent", 16>>>>
           \o Take("vectors", "w") \o delete_locks
           \o <<Acq("vector_ns", "w"), <<"set", FALSE>>, Rel("vector_ns", "w"),
                Rel("vector_ns", "r")>>

LockOps == {"put_doc", "delete_doc", "put_vector", "delete_vector", "search_vector",
            "rebuild_vectors", "save_vector_snapshot", "vacuum", "flush_wal",
            "apply_put_doc", "apply_delete_vec"}

\* the guards held by the threads other than t
HeldByOthers(t) == UNION {calls[u].held : u \in (1..Len(calls)) \ {t}}

\* a parking_lot RwLock grants a read guard when no write guard is out, and a
\* write guard when no guard at all is out, the asking thread's own included
Grantable(t, l, m) ==
  LET out == HeldByOthers(t) \cup calls[t].held
  IN IF m = "r" THEN <<l, "w">> \notin out
     ELSE <<l, "r">> \notin out /\ <<l, "w">> \notin out

NextInstr(t) == LockProgram(calls[t].op)[calls[t].pc]

\* a thread enters an operation
LockStart(op) ==
  /\ Up /\ nops < MaxLockOps /\ Len(calls) < MaxCalls
  /\ calls' = Append(calls, [op |-> op, pc |-> 1, held |-> {}])
  /\ nops' = nops + 1
  /\ UNCHANGED <<pool, disk, last, hist>>

\* thread t runs its next instruction; past the last one it returns
LockStep(t) ==
  /\ Up /\ t \in 1..Len(calls)
  /\ LET c == calls[t]
         i == NextInstr(t)
         held == CASE i[1] = "acq" -> c.held \cup {<<i[2], i[3]>>}
                   [] i[1] = "rel" -> c.held \ {<<i[2], i[3]>>}
                   [] OTHER -> c.held
         pc == IF i[1] = "absent" /\ ~ hist.present THEN i[2] ELSE c.pc + 1
     IN /\ i[1] = "acq" => Grantable(t, i[2], i[3])
        /\ hist' = IF i[1] = "set" THEN [hist EXCEPT !.present = i[2]] ELSE hist
        /\ IF pc > Len(LockProgram(c.op))
           THEN /\ calls' = SubSeq(calls, 1, t - 1) \o SubSeq(calls, t + 1, Len(calls))
                /\ last' = Call(c.op, Ok, 1, TRUE)
           ELSE /\ calls' = [calls EXCEPT ![t] = [c EXCEPT !.pc = pc, !.held = held]]
                /\ UNCHANGED last
  /\ UNCHANGED <<pool, disk, nops>>

InitLocks ==
  /\ pool = <<NewEngine(Base, VectorParams(0, 1))>>
  /\ disk = [d \in Dirs |-> EmptyDir]
  /\ last = Call("open", Ok, 1, TRUE)
  /\ nops = 0
  /\ calls = <<>>
  /\ hist = [workload |-> "Locks", put |-> <<>>, present |-> FALSE]

NextLocks ==
  \/ \E op \in LockOps : LockStart(op)
  \/ \E t \in 1..MaxCalls : LockStep(t)

SpecLocks == InitLocks /\ [][NextLocks]_vars

\* thread t asks for a guard it cannot be granted
Waiting(t) == NextInstr(t)[1] = "acq" /\ ~ Grantable(t, NextInstr(t)[2], NextInstr(t)[3])

\* the threads whose guards keep t waiting
Blockers(t) ==
  {u \in 1..Len(calls) :
     \E g \in calls[u].held :
       /\ g[1] = NextInstr(t)[2]
       /\ (NextInstr(t)[3] = "w" \/ g[2] = "w")}

\* a set of threads that wait for guards held inside the set: none of them
\* ever runs again
WaitForever(S) == S # {} /\ \A t \in S : Waiting(t) /\ Blockers(t) \subseteq S

\* C29: no interleaving of concurrent engine operations on one shard reaches
\* a state in which threads wait for each other's locks forever.
C29_NoLockWait == ~ \E S \in SUBSET (1..Len(calls)) : WaitForever(S)

(***************************************************************************)
(* A process that is killed (SpecCrash): the engine is not dropped, so no  *)
(* snapshot is saved and the records in the BufWriter of the log are lost; *)
(* the files stay as they are.  The next process opens the directory.      *)
(***************************************************************************)
CrashIds == {U0, U1}

\* the process is killed
Crash ==
  /\ Up /\ Len(pool) = 1
  /\ pool' = <<>>
  /\ last' = Call("crash", Ok, 1, TRUE)
  /\ hist' = [hist EXCEPT !.rt = <<>>, !.put = <<>>, !.live = {}, !.gone = {}]
  /\ UNCHANGED <<disk, nops, calls>>

\* PieskieoDb::open by the next process
Reopen ==
  /\ ~ Up
  /\ \E order \in Perms(DOMAIN disk[Base].snaps) :
       \E r \in {open_with_params(disk[Base], Base, VectorParams(0, 1), order)} :
         /\ pool' = IF IsOk(r.res) THEN <<r.e>> ELSE <<>>
         /\ last' = [Call("open", r.res, 1, TRUE) EXCEPT !.order = order]
  /\ hist' = HistOther(hist)
  /\ UNCHANGED <<disk, nops, calls>>

NextCrash ==
  \/ \E id \in CrashIds, vector \in {V1, V2} : PutVectorNs(1, None, id, vector, NoneOpt)
  \/ \E id \in CrashIds : DeleteVector(1, id, TRUE)
  \/ FlushWal(1)
  \/ Vacuum(1)
  \/ Crash
  \/ Reopen

SpecCrash == InitVector /\ [][NextCrash]_vars

\* the last record of the log about the vector id, if any
LastVecRecord(records, id) ==
  LET at == {i \in 1..Len(records) : records[i].family = "Vec" /\ records[i].key = id}
  IN IF at = {} THEN NoneOpt ELSE Some(records[CHOOSE i \in at : \A j \in at : j <= i])

\* what the log says about id: the vector of its last Put, nothing after a Delete
LoggedVector(rec) ==
  IF rec.k = "Put" THEN Some(<<rec.payload[2].vector, rec.payload[2].meta>>) ELSE NoneOpt

\* this step is an open that succeeds
Reopened == ~ Up /\ Up' /\ IsOk(last'.res)

\* C31: on open, the vector state reflects every record of the WAL even when
\* an older snapshot file exists and the engine was not closed cleanly: a
\* vector whose last record in the log is a Put is present with that vector,
\* one whose last record is a Delete is absent.
C31_OpenReflectsWal ==
  [][Reopened =>
       \A id \in CrashIds :
         \E rec \in {LastVecRecord(replay(disk[Base].wal).records, id)} :
           rec # NoneOpt => get_vector(pool'[1], id) = LoggedVector(rec[1])]_vars

(***************************************************************************)
(* vacuum, then the end of the process and a new open (SpecVacuum).        *)
(* hist.vacuumed keeps what the engine stored when vacuum was called; from *)
(* then on the process only ends by Drop and is opened again.              *)
(***************************************************************************)
\* the docs, rows, edges and schemas of an engine
Corpus(e) ==
  [docs |-> e.docs, rows |-> e.rows, graph |-> e.graph,
   doc_schema |-> e.doc_schema, row_schema |-> e.row_schema]

\* vacuum(), remembering the corpus it was called on
VacuumCall ==
  /\ Up /\ nops < MaxOps
  /\ \E r \in {vacuum(pool[1], disk[pool[1].path])} :
       /\ pool' = [pool EXCEPT ![1] = r.e]
       /\ disk' = [disk EXCEPT ![pool[1].path] = r.d]
       /\ last' = Call("vacuum", r.res, 1, TRUE)
  /\ nops' = nops + 1
  /\ hist' = [hist EXCEPT !.put = <<>>, !.vacuumed = Some(Corpus(pool[1]))]
  /\ UNCHANGED calls

\* the process ends: the engine is dropped
Exit ==
  /\ Up /\ Len(pool) = 1
  /\ pool' = <<>>
  /\ disk' = [disk EXCEPT ![pool[1].path] = Drop(pool[1], @)]
  /\ last' = Call("close", Ok, 1, TRUE)
  /\ hist' = HistOther(hist)
  /\ UNCHANGED <<nops, calls>>

NotVacuumed == hist.vacuumed = NoneOpt

InitVacuum ==
  /\ pool = <<NewEngine(Base, VectorParams(0, 1))>>
  /\ disk = [d \in Dirs |-> EmptyDir]
  /\ last = Call("open", Ok, 1, TRUE)
  /\ nops = 0
  /\ calls = <<>>
  /\ hist \in {InitHist(w) @@ [vacuumed |-> NoneOpt] : w \in {"Doc", "Row", "Graph"}}

NextVacuum ==
  \/ \E fam \in {"Doc", "Row"}, id \in {U0, U1}, json \in Docs :
       NotVacuumed /\ PutDoc(1, fam, <<None, None>>, id, json, TRUE)
  \/ \E fam \in {"Doc", "Row"}, id \in {U0, U1} :
       NotVacuumed /\ DeleteDoc(1, fam, <<None, None>>, id, TRUE)
  \/ \E fam \in {"Doc", "Row"} : NotVacuumed /\ SetSchema(1, fam, <<None, None>>, UniqueF, TRUE)
  \/ \E src \in {U0, U1}, dst \in {U0, U1}, w \in Weights :
       NotVacuumed /\ AddEdge(1, src, dst, w, TRUE)
  \/ NotVacuumed /\ FlushWal(1)
  \/ VacuumCall
  \/ Exit
  \/ Reopen

SpecVacuum == InitVacuum /\ [][NextVacuum]_vars

\* C32: after vacuum() followed by close and reopen of the engine, every doc,
\* row and graph edge stored before the vacuum is still returned by get_doc /
\* get_row / neighbors, and every schema set before the vacuum is still in
\* force.
C32_VacuumKeepsCorpus ==
  (Up /\ last.op = "open" /\ ~ NotVacuumed) => Corpus(pool[1]) = hist.vacuumed[1]

(***************************************************************************)
(* Writes that validation rejects (SpecValidate): documents and rows       *)
(* against a schema with a required unique field, vectors against the      *)
(* dimension of their namespace.                                           *)
(***************************************************************************)
RequiredUniqueF == Obj("f", [required |-> TRUE, unique |-> TRUE])

ValidateDocs == {Obj("f", JInt1), Obj("f", JStr1), Obj("g", JInt1), NonObject}

NextValidate ==
  \/ \E fam \in {"Doc", "Row"}, id \in {U0, U1}, json \in ValidateDocs :
       PutDoc(1, fam, <<None, None>>, id, json, TRUE)
  \/ \E fam \in {"Doc", "Row"} : SetSchema(1, fam, <<None, None>>, RequiredUniqueF, TRUE)
  \/ \E id \in {U0, U1}, vector \in {W1, W2} : PutVectorNs(1, None, id, vector, NoneOpt)
  \/ FlushWal(1)

InitValidate ==
  /\ InitEngine
  /\ hist.workload \in {"Doc", "Row", "Vec"}

SpecValidate == InitValidate /\ [][NextValidate]_vars

\* the write of this step was rejected by validation: a Validation error, a
\* UniqueViolation, or the NotFound a dimension mismatch is reported as
Rejected ==
  /\ last'.op \in {"put", "put_vector"}
  /\ nops' = nops + 1
  /\ \/ last'.res[1] \in {"Validation", "UniqueViolation"}
     \/ last'.op = "put_vector" /\ last'.res = Err("NotFound")

\* C33: validation precedes the WAL append for every write: a write rejected
\* by validation (Validation, UniqueViolation, vector dimension mismatch)
\* appends no record to the WAL.
C33_RejectedAppendsNothing ==
  [][Rejected => (pool'[1].wal = pool[1].wal /\ disk' = disk)]_vars

(***************************************************************************)
(* Graph traversal (SpecTraverse).  bfs and dfs walk the adjacency lists   *)
(* through neighbors(node, limit).  Besides the edges they return, the     *)
(* operators report the nodes they expanded, in order.                     *)
(***************************************************************************)
MaxEdges == 3

MaxLimit == 3

TraverseNodes == {U0, U1, U2}

\* the nodes are interchangeable, so one start covers every (graph, start)
TraverseStarts == {U0}

Reverse(seq) == [i \in 1..Len(seq) |-> seq[Len(seq) + 1 - i]]

\* the inner loop of bfs over the edges of one node
RECURSIVE bfs_edges(_, _, _)
bfs_edges(edges, st, limit) ==
  IF edges = <<>> \/ st.done THEN st
  ELSE LET edge == Head(edges)
       IN IF edge.dst \in st.visited THEN bfs_edges(Tail(edges), st, limit)
          ELSE LET out == Append(st.out, edge)
                   st1 == [st EXCEPT !.visited = @ \cup {edge.dst}, !.out = out]
               IN IF Len(out) >= limit THEN [st1 EXCEPT !.done = TRUE]
                  ELSE bfs_edges(Tail(edges), [st1 EXCEPT !.work = Append(@, edge.dst)], limit)

RECURSIVE bfs_loop(_, _, _)
bfs_loop(e, st, limit) ==
  IF st.done \/ st.work = <<>> THEN st
  ELSE LET node == Head(st.work)
       IN bfs_loop(e, bfs_edges(neighbors(e, node, limit),
                                [st EXCEPT !.work = Tail(@), !.expanded = Append(@, node)],
                                limit),
                   limit)

\* GraphStore::bfs
bfs(e, start, limit) ==
  bfs_loop(e, [visited |-> {start}, work |-> <<start>>, out |-> <<>>, expanded |-> <<>>,
               done |-> FALSE], limit)

\* the inner loop of dfs over the reversed edges of one node
RECURSIVE dfs_edges(_, _, _)
dfs_edges(edges, st, limit) ==
  IF edges = <<>> \/ st.done THEN st
  ELSE LET out == Append(st.out, Head(edges))
       IN IF Len(out) >= limit THEN [st EXCEPT !.out = out, !.done = TRUE]
          ELSE dfs_edges(Tail(edges),
                         [st EXCEPT !.out = out, !.work = Append(@, Head(edges).dst)], limit)

\* a popped node is never taken for visited
dfs_visited_never(visited, node) == FALSE

\* `if !visited.insert(node) { continue; }`
dfs_visited(visited, node) == node \in visited

RECURSIVE dfs_loop(_, _, _)
dfs_loop(e, st, limit) ==
  IF st.done \/ st.work = <<>> THEN st
  ELSE LET node == st.work[Len(st.work)]
           popped == [st EXCEPT !.work = SubSeq(@, 1, Len(@) - 1)]
       IN IF dfs_visited(st.visited, node) THEN dfs_loop(e, popped, limit)
          ELSE dfs_loop(e, dfs_edges(Reverse(neighbors(e, node, limit)),
                                     [popped EXCEPT !.visited = @ \cup {node},
                                                    !.expanded = Append(@, node)],
                                     limit),
                        limit)

\* GraphStore::dfs
dfs(e, start, limit) ==
  dfs_loop(e, [visited |-> {}, work |-> <<start>>, out |-> <<>>, expanded |-> <<>>,
               done |-> FALSE], limit)

\* GET /v1/graph/{id}/bfs and /dfs on the engine: the answer is kept in last
Traverse(kind, start, limit) ==
  /\ Up
  /\ \E r \in {IF kind = "bfs" THEN bfs(pool[1], start, limit) ELSE dfs(pool[1], start, limit)} :
       last' = [Call(kind, Ok, 1, TRUE) EXCEPT
                  !.arg = Arg(start, [limit |-> limit, out |-> r.out, expanded |-> r.expanded])]
  /\ UNCHANGED <<pool, disk, nops, hist, calls>>

NextTraverse ==
  \/ \E src \in TraverseNodes, dst \in TraverseNodes :
       nops < MaxEdges /\ GraphAddEdge(1, src, dst, 1, TRUE)
  \/ \E kind \in {"bfs", "dfs"}, start \in TraverseStarts, limit \in 0..MaxLimit :
       Traverse(kind, start, limit)

SpecTraverse == InitGraph /\ [][NextTraverse]_vars

Traversed == last.op \in {"bfs", "dfs"}

Answer == last.arg[1].val

NoRepeat(seq) == \A i \in 1..Len(seq), j \in 1..Len(seq) : seq[i] = seq[j] => i = j

\* the edge is stored in the adjacency list of its src
StoredEdge(e, edge) ==
  Has(e.graph, edge.src) /\ \E i \in 1..Len(e.graph[edge.src]) : e.graph[edge.src][i] = edge

\* C34: on any finite graph, cycles and self-loops included, bfs(start,
\* limit) and dfs(start, limit) terminate, return at most limit edges (none
\* when limit = 0), and expand each node at most once, so that no stored
\* edge is returned twice.
C34_TraversalBounded ==
  Traversed =>
    /\ Len(Answer.out) <= Answer.limit
    /\ NoRepeat(Answer.expanded)
    /\ NoRepeat(Answer.out)
    /\ \A i \in 1..Len(Answer.out) : StoredEdge(pool[1], Answer.out[i])

\* a traversal over a cycle and a self-loop that returned edges, reached a
\* node twice and expanded it once
C34_Witness ==
  /\ Traversed
  /\ Len(Answer.out) >= 2
  /\ Len(Answer.expanded) >= 2
  /\ \E n \in TraverseNodes : StoredEdge(pool[1], Edge(n, n, 1))
  /\ \E a \in TraverseNodes, b \in TraverseNodes :
       a # b /\ StoredEdge(pool[1], Edge(a, b, 1)) /\ StoredEdge(pool[1], Edge(b, a, 1))

\* where the edge stands in the adjacency list of its src
EdgeRank(e, edge) == CHOOSE i \in 1..Len(e.graph[edge.src]) : e.graph[edge.src][i] = edge

\* where the node stands among the expanded ones
ExpandRank(expanded, node) == CHOOSE i \in 1..Len(expanded) : expanded[i] = node

\* C35: dfs(start, limit) treats a node's out-edges in insertion order: the
\* first edge it yields is start's first-inserted edge, the edges of one
\* node are yielded in insertion order, and the first-inserted neighbour is
\* descended into before later ones.
C35_DfsLeftToRight ==
  (last.op = "dfs" /\ Answer.out # <<>>) =>
    /\ Answer.out[1] = pool[1].graph[last.arg[1].id][1]
    /\ \A i \in 1..Len(Answer.out), j \in 1..Len(Answer.out) :
         (i < j /\ Answer.out[i].src = Answer.out[j].src) =>
           EdgeRank(pool[1], Answer.out[i]) < EdgeRank(pool[1], Answer.out[j])
    /\ \A i \in 1..Len(Answer.out), j \in 1..Len(Answer.out) :
         (/\ Answer.out[i].src = Answer.out[j].src
          /\ EdgeRank(pool[1], Answer.out[i]) < EdgeRank(pool[1], Answer.out[j])
          /\ \E k \in 1..Len(Answer.expanded) : Answer.expanded[k] = Answer.out[j].dst
          /\ ExpandRank(Answer.expanded, Answer.out[j].src)
               < ExpandRank(Answer.expanded, Answer.out[j].dst)) =>
           /\ \E k \in 1..Len(Answer.expanded) : Answer.expanded[k] = Answer.out[i].dst
           /\ ExpandRank(Answer.expanded, Answer.out[i].dst)
                < ExpandRank(Answer.expanded, Answer.out[j].dst)

(***************************************************************************)
(* Tailing the log (SpecTail).  The writer is a BufWriter of BufCap cells  *)
(* (std's 8 KiB, scaled): a write_all that does not fit flushes what is    *)
(* buffered first.  Wal::append is two write_all calls, so the file can    *)
(* end in a length word whose payload is still in the buffer.  The reader  *)
(* calls replay_since with the end offset of its last successful call.     *)
(***************************************************************************)
BufCap == 10

MaxTailOps == 4

TailRecords ==
  {PutRec("Doc", U0, to_vec(Obj("f", JInt1)), "default", "default", None),
   DeleteRec("Doc", U0, "default", "default", None)}

\* what fits goes to the buffer and the buffer to the file, the rest stays
write_all_split(file, w, bytes) ==
  IF Len(bytes) <= BufCap - Len(w.buf) THEN [file |-> file, w |-> [w EXCEPT !.buf = @ \o bytes]]
  ELSE LET room == BufCap - Len(w.buf)
           f == FlushBuf(file, [w EXCEPT !.buf = @ \o SubSeq(bytes, 1, room)])
       IN [file |-> f.file, w |-> [f.w EXCEPT !.buf = SubSeq(bytes, room + 1, Len(bytes))]]

\* BufWriter::write_all: bytes that exceed the spare capacity flush the
\* buffer first; bytes as long as the whole buffer go to the file directly
write_all(file, w, bytes) ==
  LET f == IF Len(bytes) > BufCap - Len(w.buf) THEN FlushBuf(file, w)
           ELSE [file |-> file, w |-> w]
  IN IF Len(bytes) >= BufCap
     THEN [file |-> FileWrite(f.file, f.w, bytes),
           w |-> [f.w EXCEPT !.pos = IF f.w.app THEN 0 ELSE @ + Len(bytes)]]
     ELSE [file |-> f.file, w |-> [f.w EXCEPT !.buf = @ \o bytes]]

\* Wal::append on a writer of BufCap cells: the length word, then the record
append_buffered(file, w, rec) ==
  LET h == write_all(file, w, SubSeq(Frame(rec), 1, HdrLen))
  IN write_all(h.file, h.w, SubSeq(Frame(rec), HdrLen + 1, Len(Frame(rec))))

\* the offset after the first n of the records
RECURSIVE FrameEnd(_, _)
FrameEnd(records, n) ==
  IF n = 0 THEN 0 ELSE FrameEnd(records, n - 1) + Len(Frame(records[n]))

Boundaries(records) == {FrameEnd(records, n) : n \in 0..Len(records)}

TailAppend(rec) ==
  /\ Up /\ nops < MaxTailOps
  /\ \E r \in {append_buffered(disk[Base].wal, pool[1].wal, rec)} :
       /\ pool' = [pool EXCEPT ![1].wal = r.w]
       /\ disk' = [disk EXCEPT ![Base].wal = r.file]
  /\ hist' = [hist EXCEPT !.put = Append(@, rec)]
  /\ last' = Call("append", Ok, 1, TRUE)
  /\ nops' = nops + 1
  /\ UNCHANGED calls

TailFlush ==
  /\ Up /\ nops < MaxTailOps
  /\ \E r \in {flush_sync(disk[Base].wal, pool[1].wal)} :
       /\ pool' = [pool EXCEPT ![1].wal = r.w]
       /\ disk' = [disk EXCEPT ![Base].wal = r.file]
  /\ last' = Call("flush_sync", Ok, 1, TRUE)
  /\ nops' = nops + 1
  /\ UNCHANGED <<hist, calls>>

\* GET /v1/replica/wal?since=offset: on success the follower keeps the
\* records and moves to end_offset, on an error it keeps its offset
TailReplay ==
  /\ Up
  /\ \E r \in {replay_since(disk[Base].wal, hist.offset)} :
       /\ last' = [Call("replay_since", <<r.res, "">>, 1, TRUE) EXCEPT
                     !.arg = Arg(NoUuid, [since |-> hist.offset, records |-> r.records])]
       /\ hist' = IF r.res = "Ok"
                  THEN [hist EXCEPT !.offset = r.end, !.got = @ \o r.records,
                                    !.rounds = IF r.records # <<>> /\ @ < 2 THEN @ + 1 ELSE @]
                  ELSE [hist EXCEPT !.partial = TRUE]
  /\ UNCHANGED <<pool, disk, nops, calls>>

InitTail ==
  /\ pool = <<NewEngine(Base, VectorParams(0, 1))>>
  /\ disk = [d \in Dirs |-> EmptyDir]
  /\ last = Call("open", Ok, 1, TRUE)
  /\ nops = 0
  /\ calls = <<>>
  /\ hist = [workload |-> "Tail", put |-> <<>>, offset |-> 0, got |-> <<>>, rounds |-> 0,
             partial |-> FALSE]

NextTail ==
  \/ \E rec \in TailRecords : TailAppend(rec)
  \/ TailFlush
  \/ TailReplay

SpecTail == InitTail /\ [][NextTail]_vars

\* C36: the end_offset returned by replay_since is always a frame boundary:
\* for any sequence of appends and flushes, replay_since(0) followed by
\* replay_since(previous end_offset) returns every appended record exactly
\* once and in append order, none skipped, duplicated or misparsed, also when
\* the file momentarily ends in a partially written frame.
C36_TailExactlyOnce ==
  /\ \E n \in 0..Len(hist.put) :
       /\ hist.offset = FrameEnd(hist.put, n)
       /\ hist.got = SubSeq(hist.put, 1, n)
  /\ (last.op = "replay_since" /\ pool[1].wal.buf = <<>>) =>
       (IsOk(last.res) /\ hist.got = hist.put)

\* the follower has every record, received in two calls, and one call in
\* between met a file that ended inside a frame
C36_Witness ==
  /\ last.op = "replay_since" /\ IsOk(last.res)
  /\ hist.partial /\ hist.rounds = 2
  /\ Len(hist.put) >= 3 /\ hist.got = hist.put

(***************************************************************************)
(* Truncating the log (SpecTruncate): appends, flushes and truncate() on   *)
(* one Wal.  hist.put holds the records appended since the last truncate.  *)
(***************************************************************************)
WalTruncate ==
  /\ Up /\ nops < MaxTailOps
  /\ \E r \in {truncate(disk[Base].wal, pool[1].wal)} :
       /\ pool' = [pool EXCEPT ![1].wal = r.w]
       /\ disk' = [disk EXCEPT ![Base].wal = r.file]
  /\ hist' = [hist EXCEPT !.put = <<>>, !.truncated = TRUE]
  /\ last' = Call("truncate", Ok, 1, TRUE)
  /\ nops' = nops + 1
  /\ UNCHANGED calls

InitTruncate ==
  /\ pool = <<NewEngine(Base, VectorParams(0, 1))>>
  /\ disk = [d \in Dirs |-> EmptyDir]
  /\ last = Call("open", Ok, 1, TRUE)
  /\ nops = 0
  /\ calls = <<>>
  /\ hist = [workload |-> "Truncate", put |-> <<>>, truncated |-> FALSE]

NextTruncate ==
  \/ \E rec \in TailRecords : TailAppend(rec)
  \/ TailFlush
  \/ WalTruncate

SpecTruncate == InitTruncate /\ [][NextTruncate]_vars

\* C37: after truncate(), the records appended afterwards and flushed are
\* exactly what replay() returns, in append order: no record appended before
\* the truncate, flushed or still buffered, reappears in the file, and no
\* later record is overwritten or corrupted.
C37_TruncateStartsAfresh ==
  (hist.truncated /\ last.op = "flush_sync") =>
    \E log \in {replay(disk[Base].wal)} : log.res = "Ok" /\ log.records = hist.put

(***************************************************************************)
(* Queries without namespace and collection (SpecDefault).  query_docs and *)
(* query_rows pass (None, None) to filter_map_with_index, which takes the  *)
(* index path only for (Some, Some) and otherwise falls back to            *)
(* filter_map; its (None, None) arm walks every collection of every        *)
(* namespace, in the order the HashMaps yield them.                        *)
(***************************************************************************)
\* the collections of a family that hold a document
Collections(e, fam) == {<<k[1], k[2]>> : k \in DOMAIN e[DocsField(fam)]}

\* the orders two nested HashMaps can yield: a namespace's collections together
NestedOrders(S) ==
  {p \in Perms(S) :
     \A i \in 1..Len(p), j \in 1..Len(p), k \in 1..Len(p) :
       (i < j /\ j < k /\ p[i][1] = p[k][1]) => p[j][1] = p[i][1]}

\* filter_map, arm (None, None): out and skipped are shared by the collections
RECURSIVE filter_map_none(_, _, _, _, _, _, _)
filter_map_none(e, fam, order, filter, limit, offset, acc) ==
  IF order = <<>> THEN acc.out
  ELSE LET inner == Inner(e, fam, Head(order)[1], Head(order)[2])
       IN filter_map_none(e, fam, Tail(order), filter, limit, offset,
            collect_filtered_inner(e, inner, Sorted(DOMAIN inner), filter, limit, offset, acc))

\* query_docs(filter, limit, offset)
query_docs(e, order, filter, limit, offset) ==
  filter_map_none(e, "Doc", order, filter, limit, offset, [out |-> <<>>, skipped |-> 0])

\* query_rows(filter, limit, offset)
query_rows(e, order, filter, limit, offset) ==
  filter_map_none(e, "Row", order, filter, limit, offset, [out |-> <<>>, skipped |-> 0])

QueryDefault(i, fam, filter, limit, offset) ==
  /\ Up /\ nops < MaxOps /\ hist.workload = fam
  /\ \E order \in NestedOrders(Collections(pool[i], fam)) :
       \E out \in {IF fam = "Doc" THEN query_docs(pool[i], order, filter, limit, offset)
                   ELSE query_rows(pool[i], order, filter, limit, offset)} :
         last' = [Call("query_default", Ok, i, TRUE) EXCEPT
                    !.order = order,
                    !.arg = Arg(NoUuid, [filter |-> filter, limit |-> limit,
                                         offset |-> offset, out |-> out])]
  /\ nops' = nops + 1
  /\ hist' = HistOther(hist)
  /\ UNCHANGED <<pool, disk, calls>>

NextDefault ==
  \/ \E fam \in {"Doc", "Row"}, a \in Addrs, id \in IndexIds, json \in Docs :
       PutDoc(1, fam, a, id, json, TRUE)
  \/ \E fam \in {"Doc", "Row"}, a \in Addrs : DeleteDoc(1, fam, a, U0, TRUE)
  \/ \E fam \in {"Doc", "Row"}, filter \in Filters, limit \in Limits, offset \in Offsets :
       QueryDefault(1, fam, filter, limit, offset)

SpecDefault == InitIndex /\ [][NextDefault]_vars

\* C38: operations called without namespace and collection address the
\* literal "default"/"default" collection: query_docs(filter, ..) and
\* query_rows(filter, ..) return only documents stored in default/default,
\* the ones put_doc / get_doc address, and never documents of another
\* namespace or collection.
C38_QueryAddressesDefault ==
  (Up /\ last.op = "query_default") =>
    \A k \in 1..Len(last.arg[1].val.out) :
      get_ns(pool[1], hist.workload, None, None, last.arg[1].val.out[k][1])
        = Some(last.arg[1].val.out[k][2])

(***************************************************************************)
(* POST /v1/doc/query and /v1/row/query with an `sql` field                *)
(* (SpecHttpQuery).  A statement is a record; its fields tell its kind.    *)
(***************************************************************************)
StmtKind(stmt) ==
  IF "values" \in DOMAIN stmt THEN "Insert"
  ELSE IF "assignments" \in DOMAIN stmt THEN "Update"
  ELSE "Select"

SelectAllStmt(fam) ==
  [table |-> TableOf(fam), selection |-> <<>>, order_by |-> <<>>, limit |-> NoneOpt,
   offset |-> NoneOpt, projections |-> NoneOpt]

\* PieskieoDb::query_sql: the statement is dispatched on its kind and run
query_sql(e, stmt, fresh) ==
  CASE StmtKind(stmt) = "Insert" ->
         LET r == exec_insert(e, stmt, fresh, TRUE)
         IN [e |-> r.e, res |-> r.res, kind |-> "Insert", rows |-> <<>>]
    [] StmtKind(stmt) = "Update" ->
         LET r == exec_update(e, stmt, TRUE)
         IN [e |-> r.e, res |-> r.res, kind |-> "Update", rows |-> <<>>]
    [] OTHER ->
         LET r == exec_select(e, stmt)
         IN [e |-> e, res |-> r.res, kind |-> "Select", rows |-> r.rows]

\* the `sql` branch of the query_docs / query_rows handlers: query_sql on
\* each shard in turn; an error of the engine ends the request, and so does
\* the first answer that is not a Select
RECURSIVE http_query_sql(_, _, _, _, _)
http_query_sql(shards, i, stmt, fresh, hits) ==
  IF i > Len(shards) THEN [shards |-> shards, res |-> Ok, hits |-> hits]
  ELSE LET r == query_sql(shards[i], stmt, fresh)
           after == [shards EXCEPT ![i] = r.e]
       IN IF ~ IsOk(r.res) THEN [shards |-> after, res |-> r.res, hits |-> <<>>]
          ELSE IF r.kind = "Select"
          THEN http_query_sql(after, i + 1, stmt, fresh, hits \o r.rows)
          ELSE [shards |-> after, res |-> Err("BadRequest"), hits |-> <<>>]

HttpQuerySql(fam, stmt, fresh) ==
  /\ HttpUp /\ hist.workload = fam
  /\ \E r \in {http_query_sql(pool, 1, stmt, fresh, <<>>)} :
       /\ pool' = r.shards
       /\ last' = [Call("http_query", r.res, 0, TRUE) EXCEPT
                     !.arg = Arg(NoUuid, [kind |-> StmtKind(stmt), hits |-> r.hits])]
  /\ nops' = nops + 1
  /\ hist' = HistOther(hist)
  /\ UNCHANGED <<calls, disk>>

NextHttpQuery ==
  \/ \E fam \in {"Doc", "Row"}, id \in PoolIds, json \in Docs : HttpPut(fam, id, json)
  \/ \E fam \in {"Doc", "Row"}, lit \in Literals, fresh \in PoolIds :
       HttpQuerySql(fam, InsertStmt(fam, lit), fresh)
  \/ \E fam \in {"Doc", "Row"}, lit \in Literals, selection \in Selections :
       HttpQuerySql(fam, UpdateStmt(fam, lit, selection), U2)
  \/ \E fam \in {"Doc", "Row"} : HttpQuerySql(fam, SelectAllStmt(fam), U2)

SpecHttpQuery == InitSql /\ [][NextHttpQuery]_vars

\* what the shards store and have logged
ShardContents(shards) ==
  [i \in 1..Len(shards) |->
     [docs |-> shards[i].docs, rows |-> shards[i].rows, wal |-> shards[i].wal]]

\* C39: POST /v1/doc/query or /v1/row/query with an `sql` field that is not
\* a SELECT is rejected without being executed: no document or row on any
\* shard is inserted, updated or deleted by the request.
C39_NonSelectNotExecuted ==
  [][(last'.op = "http_query" /\ last'.arg[1].val.kind # "Select") =>
       (~ IsOk(last'.res) /\ ShardContents(pool') = ShardContents(pool))]_vars

(***************************************************************************)
(* vacuum() beside vector writes (SpecVacuumRace).  vacuum holds           *)
(* vectors.read() for its loop and takes, per namespace, tombstones.read() *)
(* for the clone, inner.write() for the removals and tombstones.write()    *)
(* for the clear: three critical sections, then the rebuild, the snapshots *)
(* and the truncation of the log.                                          *)
(***************************************************************************)
\* a vacuum in flight: the namespaces still to visit, in the order the
\* HashMap yields them, and the tombstones cloned for the current one
VacuumInFlight(todo) ==
  [op |-> "vacuum", id |-> NoUuid, namespace |-> None, vector |-> <<>>, meta |-> NoneOpt,
   pc |-> "clone", todo |-> todo, tomb |-> {}]

\* one step of a vacuum in flight: [e, d, call, res]
vacuum_step(e, d, c) ==
  LET go(e1, d1, c1) == [e |-> e1, d |-> d1, call |-> c1, res |-> NoneOpt]
  IN CASE c.pc = "clone" ->
            IF c.todo = <<>> THEN go(e, d, [c EXCEPT !.pc = "rebuild"])
            ELSE go(e, d, [c EXCEPT !.tomb = e.vectors[Head(c.todo)].tombstones,
                                    !.pc = "remove"])
       [] c.pc = "remove" ->
            go(WithIndex(e, Head(c.todo),
                         [e.vectors[Head(c.todo)] EXCEPT
                            !.inner = [id \in (DOMAIN @) \ c.tomb |-> @[id]]]),
               d, [c EXCEPT !.pc = "clear"])
       [] c.pc = "clear" ->
            go(WithIndex(e, Head(c.todo), [e.vectors[Head(c.todo)] EXCEPT !.tombstones = {}]),
               d, [c EXCEPT !.todo = Tail(@), !.tomb = {}, !.pc = "clone"])
       [] c.pc = "rebuild" -> go(rebuild_vectors(e), d, [c EXCEPT !.pc = "save"])
       [] c.pc = "save" -> go(e, save_vector_snapshot(e, d), [c EXCEPT !.pc = "truncate"])
       [] OTHER ->
            LET t == truncate(d.wal, e.wal)
            IN [e |-> [e EXCEPT !.wal = t.w], d |-> [d EXCEPT !.wal = t.file], call |-> c,
                res |-> Some(Ok)]

VacuumRaceCalls == {PutCall(U0, default_ns, W1, NoneOpt), DeleteCall(U0)}

\* a thread enters put_vector or delete_vector
WriteStart(c) ==
  /\ Up /\ RaceBudget /\ Len(calls) < MaxCalls
  /\ calls' = Append(calls, c @@ [todo |-> <<>>, tomb |-> {}])
  /\ nops' = nops + 1
  /\ hist' = [hist EXCEPT !.put = <<>>, !.acked = NoneOpt]
  /\ UNCHANGED <<pool, disk, last>>

\* a thread enters vacuum
VacuumStart ==
  /\ Up /\ RaceBudget /\ Len(calls) < MaxCalls
  /\ \E todo \in Perms(DOMAIN pool[1].vectors) : calls' = Append(calls, VacuumInFlight(todo))
  /\ nops' = nops + 1
  /\ UNCHANGED <<pool, disk, last, hist>>

\* the calls in flight beside call t
Beside(t) == {calls[u].op : u \in (1..Len(calls)) \ {t}}

\* the thread of call t runs its next critical section; hist.acked is the
\* vector of a put that returned Ok beside a vacuum and no other write
RaceStep(t) ==
  /\ Up /\ t \in 1..Len(calls)
  /\ \E r \in {IF calls[t].op = "vacuum" THEN vacuum_step(pool[1], disk[Base], calls[t])
               ELSE call_step(pool[1], calls[t]) @@ [d |-> disk[Base]]} :
       /\ pool' = [pool EXCEPT ![1] = r.e]
       /\ disk' = [disk EXCEPT ![Base] = r.d]
       /\ IF r.res = NoneOpt
          THEN /\ calls' = [calls EXCEPT ![t] = r.call]
               /\ UNCHANGED <<last, hist>>
          ELSE /\ calls' = SubSeq(calls, 1, t - 1) \o SubSeq(calls, t + 1, Len(calls))
               /\ last' = [Call(r.call.op, r.res[1], 1, TRUE) EXCEPT
                             !.arg = Arg(r.call.id, [namespace |-> r.call.namespace,
                                                     vector |-> r.call.vector,
                                                     meta |-> r.call.meta])]
               /\ hist' = IF r.call.op = "put_vector" /\ IsOk(r.res[1])
                             /\ Beside(t) = {"vacuum"}
                          THEN [hist EXCEPT !.acked = Some(r.call.vector)]
                          ELSE hist
  /\ UNCHANGED nops

InitVacuumRace ==
  /\ pool = <<NewEngine(Base, VectorParams(0, 1))>>
  /\ disk = [d \in Dirs |-> EmptyDir]
  /\ last = Call("open", Ok, 1, TRUE)
  /\ nops = 0
  /\ calls = <<>>
  /\ hist = InitHist("Vec") @@ [acked |-> NoneOpt]

NextVacuumRace ==
  \/ \E c \in VacuumRaceCalls : WriteStart(c)
  \/ VacuumStart
  \/ \E t \in 1..MaxCalls : RaceStep(t)

SpecVacuumRace == InitVacuumRace /\ [][NextVacuumRace]_vars

\* C40: vacuum() removes from a namespace's primary map only vectors that
\* are deleted: a put_vector(id, v) that returns success while vacuum runs
\* concurrently, re-inserting a previously deleted id, is never undone;
\* after both calls return, get_vector(id) returns v.
C40_PutSurvivesVacuum ==
  (Up /\ calls = <<>> /\ hist.acked # NoneOpt) =>
    \E got \in {get_vector(pool[1], U0)} : got # NoneOpt /\ got[1][1] = hist.acked[1]

====
